---- MODULE Spec2Model ----
(***************************************************************************)
(* A model of the template engine of lleej/jkpt                            *)
(* (src/monitor/extra_apps/django/template): the layered Context of        *)
(* context.py and the lexer / parser / node renderer of base.py.           *)
(*                                                                         *)
(* Python values are modelled as strings ("1", "true", "null", ...), a     *)
(* dict as a function from its keys, a list as a sequence, and a str as a  *)
(* sequence of one-character strings.  A method is an operator from the    *)
(* object's state and the arguments to a record holding the new state and  *)
(* the exception raised ("none" when it returns).                          *)
(***************************************************************************)
EXTENDS Integers, Sequences, FiniteSets, TLC

VARIABLES
    dicts,      \* BaseContext.dicts: the stack of frames, dicts[1] the oldest
    last,       \* the last call on the context: operation, arguments, outcome
    script,     \* the calls made since construction, while they follow ScenarioC5
    scope,      \* the innermost open `with context.push(...)` block, if any
    template,   \* a Template: its source, its engine, and what compiling it gave
    rendered,   \* the last Template.render call: its arguments and its result
    heap,       \* the dict objects: heap[id] is the content of the dict object id
    ctxs,       \* the Context objects c and c2: their frames as ids of dict objects
    pstate,     \* the open RenderContext.push_state block, if any
    hlast,      \* the last call on c or c2
    threads,    \* the renders running at the same time, one per thread
    lexed,      \* a source and the tokens each lexer made of it
    parsed,     \* a Parser: its token queue, its command stack, and what parse gave
    built,      \* a NodeList and the last Parser.extend_nodelist call on it
    expr,       \* a Variable or FilterExpression, and what building or resolving it gave
    library     \* a Library: its registries, and the last call on it

\* the observers of the calls made on the context
ghosts == <<last, script, scope>>

\* the Template and its renders
tplvars == <<template, rendered>>

\* the Contexts as objects that may share frames
heapvars == <<heap, ctxs, pstate, hlast>>

\* the renders of several threads
runvars == <<threads>>

\* the lexers and the parser on their own
lexvars == <<lexed, parsed, built, expr, library>>

\* a node list, an expression, a library on their own
partvars == <<built, expr, library>>

\* one Context as a stack of dict values, and one Template
flatvars == <<dicts, last, script, scope, template, rendered>>

vars == <<dicts, last, script, scope, template, rendered,
          heap, ctxs, pstate, hlast, threads, lexed, parsed, built, expr, library>>

\* no Context object has been made
HeapIdle == heap = <<>> /\ ctxs = <<>> /\ pstate = <<>> /\ hlast = <<>>

\* no thread renders
RunIdle == threads = <<>>

\* no lexer and no parser runs on its own
PartIdle == built = <<>> /\ expr = <<>> /\ library = <<>>

LexIdle == lexed = <<>> /\ parsed = <<>> /\ PartIdle

-----------------------------------------------------------------------------
(* Bounds of the model *)

\* the deepest frame stack explored (push is not taken beyond it)
MaxDepth == 3

\* the most positional arguments given to one push call
MaxArgs == 2

-----------------------------------------------------------------------------
(* Python dicts *)

EmptyDict == [k \in {} |-> "null"]

Dict1(k, v) == [kk \in {k} |-> v]

\* d[k] = v
DictSet(d, k, v) == [kk \in (DOMAIN d) \cup {k} |-> IF kk = k THEN v ELSE d[kk]]

\* del d[k]
DictDel(d, k) == [kk \in (DOMAIN d) \ {k} |-> d[kk]]

\* dict(d, **kw) / d.update(kw): the bindings of kw win
DictUpdate(d, kw) ==
    [kk \in (DOMAIN d) \cup (DOMAIN kw) |-> IF kk \in DOMAIN kw THEN kw[kk] ELSE d[kk]]

\* list[:-1]
ButLast(s) == SubSeq(s, 1, Len(s) - 1)

\* list[1:]
Rest(s) == SubSeq(s, 2, Len(s))

-----------------------------------------------------------------------------
(* context.py: BaseContext *)

\* _reset_dicts: the builtins frame
builtins == [k \in {"True", "False", "None"} |->
                IF k = "True" THEN "true" ELSE IF k = "False" THEN "false" ELSE "null"]

\* BaseContext._reset_dicts(value); the optional value is <<>> for Python's
\* None and <<d>> for the mapping d
reset_dicts(value) ==
    IF value = <<>> THEN <<builtins>> ELSE <<builtins, value[1]>>

\* A positional argument of push: a plain mapping or another BaseContext
DictArg(d) == [kind |-> "dict", d |-> d, dicts |-> <<>>]

CtxArg(ds) == [kind |-> "ctx", d |-> EmptyDict, dicts |-> ds]

\* The loop of push: a BaseContext contributes its frames above the builtins
RECURSIVE push_collect(_)
push_collect(args) ==
    IF args = <<>> THEN <<>>
    ELSE LET d == Head(args)
         IN (IF d.kind = "ctx" THEN Rest(d.dicts) ELSE <<d.d>>) \o push_collect(Tail(args))

\* ContextDict.__init__(context, *args, **kwargs): dict.__init__ takes at most
\* one positional argument and raises TypeError before anything is appended
ContextDict_init(ds, args, kwargs) ==
    IF Len(args) > 1
    THEN [dicts |-> ds, exc |-> "TypeError"]
    ELSE [dicts |-> Append(ds, DictUpdate(IF args = <<>> THEN EmptyDict ELSE args[1], kwargs)),
          exc |-> "none"]

\* BaseContext.push(*args, **kwargs)
push(ds, args, kwargs) == ContextDict_init(ds, push_collect(args), kwargs)

\* pop() returning quietly, instead of raising, on the builtins frame
pop_silent(ds) ==
    IF Len(ds) = 1
    THEN [dicts |-> ds, exc |-> "none"]
    ELSE [dicts |-> ButLast(ds), exc |-> "none"]

\* pop() refusing to remove the last frame above the builtins
pop_early(ds) ==
    IF Len(ds) <= 2
    THEN [dicts |-> ds, exc |-> "ContextPopException"]
    ELSE [dicts |-> ButLast(ds), exc |-> "none"]

\* BaseContext.pop()
pop(ds) ==
    IF Len(ds) = 1
    THEN [dicts |-> ds, exc |-> "ContextPopException"]
    ELSE [dicts |-> ButLast(ds), exc |-> "none"]

\* a release that pops nothing
ContextDict_exit_noop(ds) == [dicts |-> ds, exc |-> "none"]

\* ContextDict.__exit__: the release of the handle push returned
ContextDict_exit(ds) == pop(ds)

\* __setitem__ writing dicts[0] instead of dicts[-1]
setitem_bottom(ds, key, value) ==
    [dicts |-> [ds EXCEPT ![1] = DictSet(ds[1], key, value)], exc |-> "none"]

\* BaseContext.__setitem__(key, value)
setitem(ds, key, value) ==
    [dicts |-> [ds EXCEPT ![Len(ds)] = DictSet(ds[Len(ds)], key, value)], exc |-> "none"]

\* the scan run oldest frame first: the lowest index holding key
scan_forward(ds, key, i) ==
    IF \A j \in 1..i : key \notin DOMAIN ds[j] THEN 0
    ELSE CHOOSE j \in 1..i : key \in DOMAIN ds[j] /\ \A h \in 1..(j - 1) : key \notin DOMAIN ds[h]

\* The index of the frame `for d in reversed(self.dicts): if key in d` stops at,
\* scanning from index i downwards; 0 when the loop ends without a match
RECURSIVE scan_reversed(_, _, _)
scan_reversed(ds, key, i) ==
    IF i = 0 THEN 0
    ELSE IF key \in DOMAIN ds[i] THEN i
    ELSE scan_reversed(ds, key, i - 1)

\* set_upward without the search: always the top frame
set_upward_top(ds, key, value) ==
    [dicts |-> [ds EXCEPT ![Len(ds)] = DictSet(ds[Len(ds)], key, value)], exc |-> "none"]

\* BaseContext.set_upward(key, value)
set_upward(ds, key, value) ==
    LET hit == scan_reversed(ds, key, Len(ds))
        target == IF hit = 0 THEN Len(ds) ELSE hit
    IN [dicts |-> [ds EXCEPT ![target] = DictSet(ds[target], key, value)], exc |-> "none"]

\* BaseContext.__getitem__(key)
getitem(ds, key) ==
    LET hit == scan_reversed(ds, key, Len(ds))
    IN IF hit = 0 THEN [ret |-> "null", exc |-> "KeyError"]
       ELSE [ret |-> ds[hit][key], exc |-> "none"]

\* BaseContext.__delitem__(key)
delitem(ds, key) ==
    IF key \in DOMAIN ds[Len(ds)]
    THEN [dicts |-> [ds EXCEPT ![Len(ds)] = DictDel(ds[Len(ds)], key)], exc |-> "none"]
    ELSE [dicts |-> ds, exc |-> "KeyError"]

\* BaseContext.__contains__(key)
contains(ds, key) == \E i \in 1..Len(ds) : key \in DOMAIN ds[i]

\* BaseContext.get(key, otherwise)
get(ds, key, otherwise) ==
    LET hit == scan_reversed(ds, key, Len(ds))
    IN IF hit = 0 THEN otherwise ELSE ds[hit][key]

\* BaseContext.setdefault(key, default)
setdefault(ds, key, default) ==
    IF getitem(ds, key).exc = "KeyError"
    THEN [dicts |-> setitem(ds, key, default).dicts, ret |-> default, exc |-> "none"]
    ELSE [dicts |-> ds, ret |-> getitem(ds, key).ret, exc |-> "none"]

-----------------------------------------------------------------------------
(* Inputs of the context operations *)

\* the (key, value) pairs written by set, set_upward and setdefault
KeyVals == {<<"x", "1">>, <<"x", "2">>, <<"True", "1">>}

\* the keys deleted and looked up
Keys == {"x", "y", "True"}

\* the mappings handed to the constructor and to push
Mappings == {Dict1("x", "1"), Dict1("x", "2"), Dict1("y", "1")}

\* the positional arguments of push: mappings, and contexts holding zero and
\* two frames above their builtins
PushArgs ==
    {DictArg(Dict1("x", "1")), DictArg(Dict1("x", "2")),
     CtxArg(<<builtins>>),
     CtxArg(<<builtins, Dict1("x", "1"), Dict1("y", "1")>>)}

PushArgLists == UNION {[1..n -> PushArgs] : n \in 0..MaxArgs}

\* the calls of push, <<args, kwargs>>: every argument list without keyword
\* arguments, and the lists of at most one argument with y=1
PushCalls ==
    {<<args, EmptyDict>> : args \in PushArgLists}
    \cup {<<args, Dict1("y", "1")>> : args \in {a \in PushArgLists : Len(a) <= 1}}

\* The scenario "Context(), push({x:1}), push({x:2}), pop(), pop(), pop()"
ScenarioC5 == <<"Context()", "push_x1", "push_x2", "pop", "pop", "pop">>

\* the name under which a call is followed in `script`
CallName(op, args, kwargs) ==
    IF op = "push" /\ kwargs = EmptyDict /\ args = <<DictArg(Dict1("x", "1"))>> THEN "push_x1"
    ELSE IF op = "push" /\ kwargs = EmptyDict /\ args = <<DictArg(Dict1("x", "2"))>> THEN "push_x2"
    ELSE op

\* `script` after one more call: the calls so far while they are a prefix of
\* ScenarioC5, <<"off">> from the first call that leaves it
Follow(s, name) ==
    IF s # <<"off">> /\ Len(s) < Len(ScenarioC5) /\ ScenarioC5[Len(s) + 1] = name
    THEN Append(s, name)
    ELSE <<"off">>

\* The record of a `with context.push(...)` block: `entry` is the depth of the
\* stack before the push, `kept` the number of the frames present at entry
\* that have never been popped since, `own` whether the frame the push added
\* has never been popped by the body, `left` the depth at which the body left
\* the stack (0 while the block is open)
NoScope == [active |-> FALSE, entry |-> 0, kept |-> 0, own |-> FALSE, left |-> 0]

Call(op, key, val, n, exc) == [op |-> op, key |-> key, val |-> val, n |-> n, exc |-> exc]

\* no Template has been built, nothing has been rendered
NoTemplate == [phase |-> "none"]

NotRendered == [done |-> FALSE]

-----------------------------------------------------------------------------
(* The context as a state machine *)

\* Context() and Context(dict_)
InitCtx ==
    /\ dicts \in {reset_dicts(v) : v \in {<<>>} \cup {<<m>> : m \in Mappings}}
    /\ last = Call("init", "", "", 0, "none")
    /\ script = IF Len(dicts) = 1 THEN <<"Context()">> ELSE <<"off">>
    /\ scope = NoScope
    /\ template = NoTemplate
    /\ rendered = NotRendered
    /\ HeapIdle /\ RunIdle /\ LexIdle

\* The open scope after a pop() that returned r: pop removes the top frame,
\* so a frame present at entry is lost once the depth falls below its index
ScopeAfterPop(sc, ds, r) ==
    IF sc.active /\ r.exc = "none"
    THEN [sc EXCEPT !.kept = IF Len(r.dicts) < sc.kept THEN Len(r.dicts) ELSE sc.kept,
                    !.own = sc.own /\ Len(ds) # sc.entry + 1]
    ELSE sc

Push(args, kwargs) ==
    /\ UNCHANGED tplvars
    /\ UNCHANGED <<heapvars, runvars, lexvars>>
    /\ Len(dicts) < MaxDepth
    /\ LET r == push(dicts, args, kwargs)
       IN /\ dicts' = r.dicts
          /\ last' = Call("push", "", "", Len(args), r.exc)
    /\ script' = Follow(script, CallName("push", args, kwargs))
    /\ UNCHANGED scope

Pop ==
    /\ UNCHANGED tplvars
    /\ UNCHANGED <<heapvars, runvars, lexvars>>
    /\ LET r == pop(dicts)
       IN /\ dicts' = r.dicts
          /\ last' = Call("pop", "", "", 0, r.exc)
          /\ scope' = ScopeAfterPop(scope, dicts, r)
    /\ script' = Follow(script, "pop")

SetItem(key, value) ==
    /\ UNCHANGED tplvars
    /\ UNCHANGED <<heapvars, runvars, lexvars>>
    /\ LET r == setitem(dicts, key, value)
       IN /\ dicts' = r.dicts
          /\ last' = Call("set", key, value, 0, r.exc)
    /\ script' = Follow(script, "set")
    /\ UNCHANGED scope

SetUpward(key, value) ==
    /\ UNCHANGED tplvars
    /\ UNCHANGED <<heapvars, runvars, lexvars>>
    /\ LET r == set_upward(dicts, key, value)
       IN /\ dicts' = r.dicts
          /\ last' = Call("set_upward", key, value, 0, r.exc)
    /\ script' = Follow(script, "set_upward")
    /\ UNCHANGED scope

DelItem(key) ==
    /\ UNCHANGED tplvars
    /\ UNCHANGED <<heapvars, runvars, lexvars>>
    /\ LET r == delitem(dicts, key)
       IN /\ dicts' = r.dicts
          /\ last' = Call("delete", key, "", 0, r.exc)
    /\ script' = Follow(script, "delete")
    /\ UNCHANGED scope

SetDefault(key, default) ==
    /\ UNCHANGED tplvars
    /\ UNCHANGED <<heapvars, runvars, lexvars>>
    /\ LET r == setdefault(dicts, key, default)
       IN /\ dicts' = r.dicts
          /\ last' = Call("setdefault", key, default, 0, r.exc)
    /\ script' = Follow(script, "setdefault")
    /\ UNCHANGED scope

NextCtx ==
    \/ \E c \in PushCalls : Push(c[1], c[2])
    \/ Pop
    \/ \E kv \in KeyVals : SetItem(kv[1], kv[2])
    \/ \E kv \in KeyVals : SetUpward(kv[1], kv[2])
    \/ \E k \in Keys : DelItem(k)
    \/ \E kv \in KeyVals : SetDefault(kv[1], kv[2])

SpecContext == InitCtx /\ [][NextCtx]_vars

-----------------------------------------------------------------------------
(* Scoped pushes: `with context.push(...): body` *)

\* Entering the block: push() builds the ContextDict, __enter__ returns it
EnterScope(args, kwargs) ==
    /\ UNCHANGED tplvars
    /\ UNCHANGED <<heapvars, runvars, lexvars>>
    /\ ~scope.active
    /\ Len(dicts) < MaxDepth
    /\ LET r == push(dicts, args, kwargs)
       IN /\ dicts' = r.dicts
          /\ last' = Call("with_push", "", "", Len(args), r.exc)
          /\ scope' = IF r.exc = "none"
                      THEN [active |-> TRUE, entry |-> Len(dicts), kept |-> Len(dicts),
                            own |-> TRUE, left |-> 0]
                      ELSE NoScope
    /\ script' = <<"off">>

\* Leaving the block, the body having returned or raised: __exit__ runs in
\* both cases and returns None, so an exception of the body propagates
ExitScope(raised) ==
    /\ UNCHANGED tplvars
    /\ UNCHANGED <<heapvars, runvars, lexvars>>
    /\ scope.active
    /\ LET r == ContextDict_exit(dicts)
       IN /\ dicts' = r.dicts
          /\ last' = Call("with_exit", "", "", 0,
                          IF r.exc # "none" THEN r.exc
                          ELSE IF raised THEN "BodyError" ELSE "none")
          /\ scope' = [ScopeAfterPop(scope, dicts, r) EXCEPT
                          !.active = FALSE, !.own = scope.own, !.left = Len(dicts)]
    /\ script' = <<"off">>

\* the argument lists of the pushes around and inside a block: none, one
\* mapping, one context, two mappings
ScopePushes ==
    {<<>>, <<DictArg(Dict1("x", "1"))>>, <<CtxArg(<<builtins>>)>>,
     <<DictArg(Dict1("x", "1")), DictArg(Dict1("y", "1"))>>}

\* The calls a body makes on the context
BodyCall ==
    \/ \E args \in ScopePushes : Push(args, EmptyDict)
    \/ Pop
    \/ SetItem("x", "2")
    \/ SetUpward("x", "2")

NextScope ==
    \/ \E args \in ScopePushes : EnterScope(args, EmptyDict)
    \/ \E raised \in BOOLEAN : ExitScope(raised)
    \/ BodyCall

SpecScope == InitCtx /\ [][NextScope]_vars

-----------------------------------------------------------------------------
(* Template sources: a str is a sequence of one-character strings *)

\* the number of segments a template source is made of
MaxSegs == 3

BLOCK_TAG_START == <<"{", "%">>

VARIABLE_TAG_START == <<"{", "{">>

COMMENT_TAG_START == <<"{", "#">>

TRANSLATOR_COMMENT_MARK == <<"T", "r", "a", "n", "s", "l", "a", "t", "o", "r", "s">>

S_verbatim == <<"v", "e", "r", "b", "a", "t", "i", "m">>

Min(S) == CHOOSE m \in S : \A n \in S : m <= n

\* str.startswith(prefix)
startswith(s, prefix) ==
    Len(s) >= Len(prefix) /\ SubSeq(s, 1, Len(prefix)) = prefix

\* str.find(sub): the 0-based index of the first occurrence, -1 if none
find(s, sub) ==
    LET I == {i \in 1..(Len(s) - Len(sub) + 1) : SubSeq(s, i, i + Len(sub) - 1) = sub}
    IN  IF I = {} THEN -1 ELSE Min(I) - 1

\* str.isspace() of one character
isspace(c) == c \in {" ", "\n", "\t"}

\* str.strip(): drop the leading and the trailing whitespace
strip(s) ==
    LET I == {i \in 1..Len(s) : ~isspace(s[i])}
    IN  IF I = {} THEN <<>> ELSE SubSeq(s, Min(I), CHOOSE m \in I : \A n \in I : n <= m)

\* str.count('\n') taken as a test for a newline
count_newlines_any(s) == IF \E m \in 1..Len(s) : s[m] = "\n" THEN 1 ELSE 0

\* str.count('\n')
RECURSIVE count_newlines(_)
count_newlines(s) ==
    IF s = <<>> THEN 0
    ELSE (IF s[1] = "\n" THEN 1 ELSE 0) + count_newlines(Rest(s))

\* str.split(): the maximal runs of non-whitespace characters
RECURSIVE split(_)
split(s) ==
    LET t == strip(s)
        W == {i \in 1..Len(t) : isspace(t[i])}
    IN  IF t = <<>> THEN <<>>
        ELSE IF W = {} THEN <<t>>
        ELSE <<SubSeq(t, 1, Min(W) - 1)>> \o split(SubSeq(t, Min(W), Len(t)))

\* token_string[2:-2] of a matched tag
inner(token_string) == SubSeq(token_string, 3, Len(token_string) - 2)

\* the character that, followed by "}", ends a tag opened by "{" and c
tag_end(c) == IF c = "{" THEN "}" ELSE c

\* a tag_re whose quantifiers are greedy
tag_re_match_greedy(s, i) ==
    IF i + 3 > Len(s) \/ s[i] # "{" \/ s[i + 1] \notin {"%", "{", "#"} THEN 0
    ELSE LET J == {j \in (i + 2)..(Len(s) - 1) :
                        /\ s[j] = tag_end(s[i + 1]) /\ s[j + 1] = "}"
                        /\ \A m \in (i + 2)..(j - 1) : s[m] # "\n"}
         IN  IF J = {} THEN 0 ELSE (CHOOSE j \in J : \A m \in J : m <= j) + 1

\* tag_re matched at index i: the index of the last character of the match,
\* 0 when there is no match at i.  `.*?` takes the fewest characters and
\* never a newline.
tag_re_match(s, i) ==
    IF i + 3 > Len(s) \/ s[i] # "{" \/ s[i + 1] \notin {"%", "{", "#"} THEN 0
    ELSE LET J == {j \in (i + 2)..(Len(s) - 1) :
                        s[j] = tag_end(s[i + 1]) /\ s[j + 1] = "}"}
         IN  IF J = {} THEN 0
             ELSE IF \E m \in (i + 2)..(Min(J) - 1) : s[m] = "\n" THEN 0
             ELSE Min(J) + 1

\* the start of the leftmost match of tag_re at or after pos, 0 if none
tag_re_search(s, pos) ==
    LET I == {i \in pos..Len(s) : tag_re_match(s, i) # 0}
    IN  IF I = {} THEN 0 ELSE Min(I)

\* tag_re.split(s): text and tag bits alternate, starting with text
RECURSIVE tag_re_split(_, _)
tag_re_split(s, pos) ==
    LET i == tag_re_search(s, pos)
    IN  IF i = 0 THEN <<SubSeq(s, pos, Len(s))>>
        ELSE <<SubSeq(s, pos, i - 1), SubSeq(s, i, tag_re_match(s, i))>>
                 \o tag_re_split(s, tag_re_match(s, i) + 1)

\* tag_re.finditer(s): the spans (start, end) of the matches, 0-based, end
\* exclusive
RECURSIVE tag_re_finditer(_, _)
tag_re_finditer(s, pos) ==
    LET i == tag_re_search(s, pos)
    IN  IF i = 0 THEN <<>>
        ELSE <<[start |-> i - 1, end |-> tag_re_match(s, i)]>>
                 \o tag_re_finditer(s, tag_re_match(s, i) + 1)

\* position of a token the plain Lexer made
NoPosition == [start |-> -1, end |-> -1]

Token(token_type, contents, position, lineno) ==
    [token_type |-> token_type, contents |-> contents,
     position |-> position, lineno |-> lineno]

\* Lexer.create_token: the token, and self.verbatim afterwards (<<>> is False)
\* a lexer without the verbatim mode
create_token_plain(verbatim, token_string, position, lineno, in_tag) ==
    [token |-> Token(IF ~in_tag THEN "TEXT"
                     ELSE IF startswith(token_string, VARIABLE_TAG_START) THEN "VAR"
                     ELSE IF startswith(token_string, BLOCK_TAG_START) THEN "BLOCK"
                     ELSE "COMMENT",
                     IF in_tag THEN strip(inner(token_string)) ELSE token_string,
                     position, lineno),
     verbatim |-> <<>>]

create_token(verbatim, token_string, position, lineno, in_tag) ==
    LET is_block == in_tag /\ startswith(token_string, BLOCK_TAG_START)
        block_content == strip(inner(token_string))
        v == IF is_block /\ verbatim # <<>> /\ block_content = verbatim
             THEN <<>> ELSE verbatim
    IN  IF in_tag /\ v = <<>> THEN
            IF startswith(token_string, VARIABLE_TAG_START) THEN
                [token |-> Token("VAR", strip(inner(token_string)), position, lineno),
                 verbatim |-> v]
            ELSE IF startswith(token_string, BLOCK_TAG_START) THEN
                [token |-> Token("BLOCK", block_content, position, lineno),
                 verbatim |-> IF SubSeq(block_content, 1, IF Len(block_content) < 9 THEN Len(block_content) ELSE 9)
                                    \in {S_verbatim, S_verbatim \o <<" ">>}
                              THEN <<"e", "n", "d">> \o block_content ELSE v]
            ELSE
                [token |-> Token("COMMENT",
                                 IF find(token_string, TRANSLATOR_COMMENT_MARK) # 0
                                 THEN strip(inner(token_string)) ELSE <<>>,
                                 position, lineno),
                 verbatim |-> v]
        ELSE [token |-> Token("TEXT", token_string, position, lineno), verbatim |-> v]

\* Lexer.tokenize: the loop over the bits, from bit k on
RECURSIVE Lexer_loop(_, _, _, _, _, _)
Lexer_loop(bits, k, in_tag, lineno, verbatim, result) ==
    IF k > Len(bits) THEN result
    ELSE LET r == create_token(verbatim, bits[k], NoPosition, lineno, in_tag)
         IN  Lexer_loop(bits, k + 1, ~in_tag, lineno + count_newlines(bits[k]),
                        IF bits[k] # <<>> THEN r.verbatim ELSE verbatim,
                        IF bits[k] # <<>> THEN Append(result, r.token) ELSE result)

\* a plain lexer that counts lines from 0
Lexer_tokenize_from_zero(template_string) ==
    Lexer_loop(tag_re_split(template_string, 1), 1, FALSE, 0, <<>>, <<>>)

Lexer_tokenize(template_string) ==
    Lexer_loop(tag_re_split(template_string, 1), 1, FALSE, 1, <<>>, <<>>)

\* DebugLexer.tokenize: the loop over the matches, from match k on
RECURSIVE DebugLexer_loop(_, _, _, _, _, _, _)
DebugLexer_loop(s, spans, k, upto, lineno, verbatim, result) ==
    IF k > Len(spans) THEN
        IF upto < Len(s)
        THEN Append(result, create_token(verbatim, SubSeq(s, upto + 1, Len(s)),
                                         [start |-> upto, end |-> Len(s)], lineno, FALSE).token)
        ELSE result
    ELSE LET start == spans[k].start
             end == spans[k].end
             text == SubSeq(s, upto + 1, start)
             t1 == create_token(verbatim, text, [start |-> upto, end |-> start], lineno, FALSE)
             lineno1 == IF start > upto THEN lineno + count_newlines(text) ELSE lineno
             verbatim1 == IF start > upto THEN t1.verbatim ELSE verbatim
             result1 == IF start > upto THEN Append(result, t1.token) ELSE result
             tag == SubSeq(s, start + 1, end)
             t2 == create_token(verbatim1, tag, spans[k], lineno1, TRUE)
         IN  DebugLexer_loop(s, spans, k + 1, end, lineno1 + count_newlines(tag),
                             t2.verbatim, Append(result1, t2.token))

DebugLexer_tokenize(template_string) ==
    DebugLexer_loop(template_string, tag_re_finditer(template_string, 1), 1, 0, 1, <<>>, <<>>)

-----------------------------------------------------------------------------
(* Parser, nodes and rendering *)

NoToken == Token("NONE", <<>>, NoPosition, 0)

\* no exception
NoExc == [type |-> "none", msg |-> "", token |-> NoToken]

\* Parser.error: the exception annotated with the originating token
error(token, type, msg) == [type |-> type, msg |-> msg, token |-> token]

NodeList == [nodes |-> <<>>, contains_nontext |-> FALSE]

\* a text node that keeps its text without the surrounding whitespace
TextNode_stripped(s) ==
    [kind |-> "TextNode", s |-> strip(s), var |-> <<>>, target_var |-> <<>>,
     token |-> NoToken, must_be_first |-> FALSE]

TextNode(s) ==
    [kind |-> "TextNode", s |-> s, var |-> <<>>, target_var |-> <<>>,
     token |-> NoToken, must_be_first |-> FALSE]

VariableNode(var) ==
    [kind |-> "VariableNode", s |-> <<>>, var |-> var, target_var |-> <<>>,
     token |-> NoToken, must_be_first |-> FALSE]

\* a SimpleNode of the registered function; target_var <<>> is None
SimpleNode(target_var) ==
    [kind |-> "SimpleNode", s |-> <<>>, var |-> <<>>, target_var |-> target_var,
     token |-> NoToken, must_be_first |-> FALSE]

\* a node list that grows at its front
nodelist_append_front(nodelist, node) ==
    [nodelist EXCEPT !.nodes = <<node>> \o @]

\* NodeList.append(node)
nodelist_append(nodelist, node) ==
    [nodelist EXCEPT !.nodes = Append(@, node)]

\* an extend_nodelist for which a text node counts as a node that is not text
extend_nodelist_any(nodelist, node, token) ==
    IF node.must_be_first /\ nodelist.contains_nontext
    THEN [nodelist |-> nodelist,
          exc |-> error(token, "TemplateSyntaxError", "must be the first tag in the template")]
    ELSE [nodelist |-> nodelist_append([nodelist EXCEPT !.contains_nontext = TRUE],
                                       [node EXCEPT !.token = token]),
          exc |-> NoExc]

\* Parser.extend_nodelist
extend_nodelist(nodelist, node, token) ==
    IF node.must_be_first /\ nodelist.contains_nontext
    THEN [nodelist |-> nodelist,
          exc |-> error(token, "TemplateSyntaxError", "must be the first tag in the template")]
    ELSE [nodelist |-> nodelist_append(
                           [nodelist EXCEPT !.contains_nontext = @ \/ node.kind # "TextNode"],
                           [node EXCEPT !.token = token]),
          exc |-> NoExc]

\* the characters \w matches, among those of the modelled sources
WordChars == {"a", "s", "t", "x"}

\* Parser.compile_filter / FilterExpression.__init__ on a token without
\* filters or literals: the variable name, or TemplateSyntaxError when
\* filter_re leaves a part of the token unmatched
compile_filter(token) ==
    IF token # <<>> /\ \A i \in 1..Len(token) : token[i] \in WordChars
    THEN [var |-> token, exc |-> "none"]
    ELSE [var |-> <<>>, exc |-> "TemplateSyntaxError"]

\* the function the library registers with @register.simple_tag: def t()
S_t == <<"t">>

S_as == <<"a", "s">>

\* Token.split_contents: no quoted or translated piece in the modelled sources
split_contents(token) == split(token.contents)

\* parse_bits for a function without parameters: each bit is a positional
\* argument too many, unless compiling it already fails
parse_bits(bits) ==
    IF bits = <<>> THEN "none" ELSE "TemplateSyntaxError"

\* compile_func of simple_tag
compile_func(token) ==
    LET bits0 == Rest(split_contents(token))
        has_as == Len(bits0) >= 2 /\ bits0[Len(bits0) - 1] = S_as
        target_var == IF has_as THEN bits0[Len(bits0)] ELSE <<>>
        bits == IF has_as THEN SubSeq(bits0, 1, Len(bits0) - 2) ELSE bits0
    IN  [node |-> SimpleNode(target_var), exc |-> parse_bits(bits)]

\* a block tag whose body ends at {% endb %}
S_b == <<"b">>

S_endb == <<"e", "n", "d", "b">>

\* the node the block tag makes of the nodes of its body
BlockNode(nodelist) ==
    [kind |-> "BlockNode", s |-> <<>>, var |-> <<>>, target_var |-> <<>>,
     token |-> NoToken, must_be_first |-> FALSE, nodelist |-> nodelist.nodes]

\* Parser.tags: the commands registered with the parser
tags == {S_t, S_b}

\* Parser.next_token: the token taken from the head of the queue is tokens[1]
next_token(tokens) == Rest(tokens)

\* a parser that does not put the terminator back
prepend_token_dropped(tokens, token) == tokens

\* Parser.prepend_token
prepend_token(tokens, token) == <<token>> \o tokens

\* a delete_first_token that leaves the queue as it is
delete_first_token_kept(tokens) == tokens

\* Parser.delete_first_token
delete_first_token(tokens) == Rest(tokens)

\* a parser that names the first tag opened, not the last
unclosed_block_tag_outermost(command_stack) ==
    IF command_stack = <<>>
    THEN [type |-> "IndexError", msg |-> "pop from empty list", token |-> NoToken]
    ELSE error(command_stack[1].token, "TemplateSyntaxError", "Unclosed tag")

\* Parser.unclosed_block_tag: pops the command stack to name the open tag
unclosed_block_tag(command_stack) ==
    IF command_stack = <<>>
    THEN [type |-> "IndexError", msg |-> "pop from empty list", token |-> NoToken]
    ELSE error(command_stack[Len(command_stack)].token, "TemplateSyntaxError", "Unclosed tag")

\* Parser.parse: the loop over self.tokens; the result holds the node list,
\* the tokens left, the command stack and the exception raised, if any
RECURSIVE parse_loop(_, _, _, _)

\* the compile function of the block tag, r being what
\* parser.parse(('endb',)) returned: it drops the terminator and makes the node
do_block_parsed(r) ==
    IF r.exc # NoExc
    THEN [node |-> BlockNode(NodeList), tokens |-> r.tokens,
          command_stack |-> r.command_stack, exc |-> r.exc]
    ELSE [node |-> BlockNode(r.nodelist), tokens |-> delete_first_token(r.tokens),
          command_stack |-> r.command_stack, exc |-> NoExc]

\* the compile function of the block tag, called with the parser and the token
do_block(tokens, command_stack, token) ==
    do_block_parsed(parse_loop(tokens, command_stack, {S_endb}, NodeList))

\* an annotation that always names the token of the tag that is compiled,
\* whatever token the exception holds
block_compiled_outer(c, r, token, cs, command_stack, parse_until, nodelist) ==
    IF c.exc # NoExc
    THEN [nodelist |-> nodelist, tokens |-> c.tokens, command_stack |-> c.command_stack,
          exc |-> [c.exc EXCEPT !.token = token]]
    ELSE IF r.exc # NoExc
    THEN [nodelist |-> nodelist, tokens |-> c.tokens, command_stack |-> cs, exc |-> r.exc]
    ELSE parse_loop(c.tokens, command_stack, parse_until, r.nodelist)

\* Parser.parse after compile_func(self, token) returned c or raised c.exc:
\* the node is appended, the command stack popped and the loop goes on
block_compiled(c, r, token, cs, command_stack, parse_until, nodelist) ==
    IF c.exc # NoExc
    THEN [nodelist |-> nodelist, tokens |-> c.tokens, command_stack |-> c.command_stack,
          exc |-> IF c.exc.token = NoToken THEN [c.exc EXCEPT !.token = token] ELSE c.exc]
    ELSE IF r.exc # NoExc
    THEN [nodelist |-> nodelist, tokens |-> c.tokens, command_stack |-> cs, exc |-> r.exc]
    ELSE parse_loop(c.tokens, command_stack, parse_until, r.nodelist)

block_tag(c, token, cs, command_stack, parse_until, nodelist) ==
    block_compiled(c, extend_nodelist(nodelist, c.node, token), token, cs, command_stack,
                   parse_until, nodelist)

parse_loop(tokens, command_stack, parse_until, nodelist) ==
    IF tokens = <<>> THEN
        [nodelist |-> nodelist, tokens |-> tokens,
         command_stack |-> IF parse_until # {} /\ command_stack # <<>>
                           THEN SubSeq(command_stack, 1, Len(command_stack) - 1)
                           ELSE command_stack,
         exc |-> IF parse_until # {} THEN unclosed_block_tag(command_stack) ELSE NoExc]
    ELSE
    LET token == tokens[1]
        rest == next_token(tokens)
        raise(cs, e) == [nodelist |-> nodelist, tokens |-> rest, command_stack |-> cs, exc |-> e]
        extend(node) ==
            LET r == extend_nodelist(nodelist, node, token)
            IN  IF r.exc # NoExc THEN raise(command_stack, r.exc)
                ELSE parse_loop(rest, command_stack, parse_until, r.nodelist)
    IN  CASE token.token_type = "TEXT" -> extend(TextNode(token.contents))
          [] token.token_type = "VAR" ->
                IF token.contents = <<>>
                THEN raise(command_stack, error(token, "TemplateSyntaxError", "Empty variable tag"))
                ELSE LET fe == compile_filter(token.contents)
                     IN  IF fe.exc # "none"
                         THEN raise(command_stack, error(token, fe.exc, "Could not parse"))
                         ELSE extend(VariableNode(fe.var))
          [] token.token_type = "BLOCK" ->
                IF split(token.contents) = <<>>
                THEN raise(command_stack, error(token, "TemplateSyntaxError", "Empty block tag"))
                ELSE
                LET command == split(token.contents)[1]
                    cs == Append(command_stack, [command |-> command, token |-> token])
                IN  IF command \in parse_until
                    THEN [nodelist |-> nodelist, tokens |-> prepend_token(rest, token),
                          command_stack |-> command_stack, exc |-> NoExc]
                    ELSE IF command \notin tags
                    THEN raise(cs, error(token, "TemplateSyntaxError", "Invalid block tag"))
                    ELSE IF command = S_b
                    THEN block_tag(do_block(rest, cs, token), token, cs, command_stack,
                                   parse_until, nodelist)
                    ELSE LET c == compile_func(token)
                             r == extend_nodelist(nodelist, c.node, token)
                         IN  IF c.exc # "none"
                             THEN raise(cs, error(token, c.exc, "received too many positional arguments"))
                             ELSE IF r.exc # NoExc THEN raise(cs, r.exc)
                             ELSE parse_loop(rest, command_stack, parse_until, r.nodelist)
          [] OTHER -> parse_loop(rest, command_stack, parse_until, nodelist)

parse(tokens) == parse_loop(tokens, <<>>, {}, NodeList)

\* the lexer the engine's debug flag selects
tokenize(source, debug) ==
    IF debug THEN DebugLexer_tokenize(source) ELSE Lexer_tokenize(source)

\* what compiling gave: with debug on, an exception carries the position of
\* its token (Template.get_exception_info)
compiled(tokens, r, debug) ==
    [tokens |-> tokens, nodelist |-> r.nodelist, exc |-> r.exc,
     template_debug |-> IF debug /\ r.exc # NoExc THEN r.exc.token.position ELSE NoPosition]

\* the parser run over the tokens
parse_tokens(tokens, debug) == compiled(tokens, parse(tokens), debug)

\* Template.compile_nodelist
compile_nodelist(source, debug) == parse_tokens(tokenize(source, debug), debug)

\* str(value) of a context value
str(value) ==
    CASE value = "true" -> <<"T", "r", "u", "e">>
      [] value = "false" -> <<"F", "a", "l", "s", "e">>
      [] value = "null" -> <<"N", "o", "n", "e">>
      [] OTHER -> <<value>>

\* conditional_escape of a plain str: html.escape
RECURSIVE conditional_escape(_)
conditional_escape(s) ==
    IF s = <<>> THEN <<>>
    ELSE (CASE s[1] = "<" -> <<"&", "l", "t", ";">>
            [] s[1] = ">" -> <<"&", "g", "t", ";">>
            [] s[1] = "&" -> <<"&", "a", "m", "p", ";">>
            [] OTHER -> <<s[1]>>) \o conditional_escape(Rest(s))

\* render_value_in_context, on the str() of the value
render_value_in_context(value, autoescape) ==
    IF autoescape THEN conditional_escape(value) ELSE value

\* a dict key is a Python str; the model's keys are TLA+ strings
key_of(name) == IF Len(name) = 1 THEN name[1] ELSE "other"

\* FilterExpression.resolve of a bare variable: Variable.resolve looks the
\* name up in the context; a failed lookup gives string_if_invalid
resolve(var, ds, string_if_invalid) ==
    LET r == getitem(ds, key_of(var))
    IN  IF r.exc = "none" THEN [str |-> str(r.ret), invalid |-> FALSE]
        ELSE [str |-> string_if_invalid, invalid |-> TRUE]

\* the value the registered function returns
func_t == "T"

\* Node.render of one node: the fragment, and the context afterwards
render_node(node, ds, autoescape, string_if_invalid) ==
    CASE node.kind = "TextNode" -> [output |-> node.s, dicts |-> ds]
      [] node.kind = "VariableNode" ->
            LET r == resolve(node.var, ds, string_if_invalid)
            IN  [output |-> render_value_in_context(r.str, autoescape), dicts |-> ds]
      [] node.kind = "SimpleNode" ->
            IF node.target_var # <<>>
            THEN [output |-> <<>>, dicts |-> setitem(ds, key_of(node.target_var), func_t).dicts]
            ELSE [output |-> IF autoescape THEN conditional_escape(<<func_t>>) ELSE <<func_t>>,
                  dicts |-> ds]

\* NodeList.render: render each node in turn and join the bits
RECURSIVE NodeList_render(_, _, _, _)
NodeList_render(nodes, ds, autoescape, string_if_invalid) ==
    IF nodes = <<>> THEN [output |-> <<>>, dicts |-> ds]
    ELSE LET r == render_node(nodes[1], ds, autoescape, string_if_invalid)
             t == NodeList_render(Rest(nodes), r.dicts, autoescape, string_if_invalid)
         IN  [output |-> r.output \o t.output, dicts |-> t.dicts]

-----------------------------------------------------------------------------
(* The Template as a state machine *)

\* the pieces template sources are made of
Segments ==
    {<<"a">>, <<"<">>, <<"\n">>,
     <<"{", "{">>, <<"}", "}">>, <<"{", "%">>, <<"%", "}">>, <<"{", "#">>, <<"#", "}">>,
     <<"{", "{", " ", "x", " ", "}", "}">>,
     <<"{", "%", " ", "t", " ", "%", "}">>,
     <<"{", "#", " ", "a", " ", "#", "}">>,
     <<"{", "%", " ", "t", " ", "a", "s", " ", "x", " ", "%", "}">>}

RECURSIVE Concat(_)
Concat(ss) == IF ss = <<>> THEN <<>> ELSE ss[1] \o Concat(Rest(ss))

Sources == {Concat(ss) : ss \in UNION {[1..n -> Segments] : n \in 0..MaxSegs}}

\* Engine(debug=..., string_if_invalid=...)
Engines ==
    {[debug |-> FALSE, string_if_invalid |-> <<>>],
     [debug |-> TRUE, string_if_invalid |-> <<"?">>]}

\* Context(dict_, autoescape=...): the dict_ arguments, <<>> for None
RenderDicts == {<<>>, <<Dict1("x", "1")>>, <<Dict1("x", "<")>>}

\* before Template(template_string, engine=engine)
InitTemplate ==
    /\ dicts = reset_dicts(<<>>)
    /\ last = Call("init", "", "", 0, "none")
    /\ script = <<"off">>
    /\ scope = NoScope
    /\ \E source \in Sources, engine \in Engines :
         template = [phase |-> "new", source |-> source, engine |-> engine,
                     tokens |-> <<>>, nodelist |-> NodeList, exc |-> NoExc,
                     template_debug |-> NoPosition]
    /\ rendered = NotRendered
    /\ HeapIdle /\ RunIdle /\ LexIdle

\* the Template object after compile_nodelist returned or raised r
Template_compiled(t, r) ==
    [t EXCEPT !.phase = IF r.exc = NoExc THEN "compiled" ELSE "failed",
              !.tokens = r.tokens,
              !.nodelist = r.nodelist,
              !.exc = r.exc,
              !.template_debug = r.template_debug]

\* Template.__init__: compile the source into the node list, or raise
Template_init ==
    /\ template.phase = "new"
    /\ template' = Template_compiled(template,
                        compile_nodelist(template.source, template.engine.debug))
    /\ UNCHANGED <<dicts, rendered>>
    /\ UNCHANGED ghosts
    /\ UNCHANGED <<heapvars, runvars, lexvars>>

\* RenderContext.push_state around the render: a frame pushed, then popped
push_state(render_context) == pop(push(render_context, <<>>, EmptyDict).dicts).dicts

\* the record of a render call
Rendered(ds, autoescape, r) ==
    [done |-> TRUE, before |-> ds, autoescape |-> autoescape,
     render_context |-> push_state(reset_dicts(<<>>)), output |-> r.output]

\* the context and the record of the call after the node list rendered to r
Template_rendered(ds, autoescape, r) ==
    /\ dicts' = r.dicts
    /\ rendered' = Rendered(ds, autoescape, r)

\* Template.render(context), context being a Context whose stack is ds
Template_render(ds, autoescape) ==
    /\ template.phase = "compiled"
    /\ Template_rendered(ds, autoescape,
                         NodeList_render(template.nodelist.nodes, ds, autoescape,
                                         template.engine.string_if_invalid))
    /\ UNCHANGED template
    /\ UNCHANGED ghosts
    /\ UNCHANGED <<heapvars, runvars, lexvars>>

NextTemplate ==
    \/ Template_init
    \/ \E d \in RenderDicts, autoescape \in BOOLEAN :
         Template_render(reset_dicts(d), autoescape)
    \/ \E autoescape \in BOOLEAN : Template_render(dicts, autoescape)

SpecTemplate == InitTemplate /\ [][NextTemplate]_vars

-----------------------------------------------------------------------------
(* Contexts as objects: a frame is a dict object, named by its id on a heap *)

\* the number of dict objects ever made
MaxObjs == 6

\* the dict the caller holds and passes by reference
CallerDict == 1

\* the contents of the frames ids names, oldest first
frames_of(h, ids) == [i \in 1..Len(ids) |-> h[ids[i]]]

\* the heap after the frames ids names were updated in place to ds
store(h, ids, ds) ==
    [j \in 1..Len(h) |->
        IF \E i \in 1..Len(ids) : ids[i] = j
        THEN ds[CHOOSE i \in 1..Len(ids) : ids[i] = j]
        ELSE h[j]]

\* BaseContext._reset_dicts(value): a new builtins dict, then value itself;
\* value is <<>> for None and <<id>> for a dict object
BaseContext_reset_dicts(h, value) ==
    [heap |-> Append(h, builtins), dicts |-> <<Len(h) + 1>> \o value]

\* RenderContext(): a stack of its own, bound to no template
RenderContext_init(h) ==
    [heap |-> BaseContext_reset_dicts(h, <<>>).heap,
     obj |-> [dicts |-> BaseContext_reset_dicts(h, <<>>).dicts, template |-> "None"]]

\* a Context whose render context is its own frame stack
Context_obj_shared(rc, r) ==
    [heap |-> r.heap,
     obj |-> [made |-> TRUE, dicts |-> r.dicts,
              render_context |-> [dicts |-> r.dicts, template |-> "None"],
              template |-> "None", template_name |-> "unknown"]]

\* the Context object made of a render context and a frame stack
Context_obj(rc, r) ==
    [heap |-> r.heap,
     obj |-> [made |-> TRUE, dicts |-> r.dicts, render_context |-> rc.obj,
              template |-> "None", template_name |-> "unknown"]]

\* Context.__init__(dict_): the render context first, then the frame stack
Context_init(h, dict_) ==
    Context_obj(RenderContext_init(h),
                BaseContext_reset_dicts(RenderContext_init(h).heap, dict_))

\* no Context object
NoContext ==
    [made |-> FALSE, dicts |-> <<>>,
     render_context |-> [dicts |-> <<>>, template |-> "None"],
     template |-> "None", template_name |-> "unknown"]

\* BaseContext.__copy__: a new list of the same frame objects
BaseContext_copy(ids) == SubSeq(ids, 1, Len(ids))

\* Context.__copy__: the frame list and the render context are copied, the
\* frames of both are not
Context_copy(c) ==
    [c EXCEPT !.dicts = BaseContext_copy(c.dicts),
              !.render_context.dicts = BaseContext_copy(c.render_context.dicts)]

\* a reset that keeps the builtins frame of the copied stack
reset_dicts_kept(h, c, values) ==
    [heap |-> h, dicts |-> SubSeq(c.dicts, 1, 1) \o values]

\* what _reset_dicts does to the stack of the copy Context.new made
reset_dicts_of_copy(h, c, values) == BaseContext_reset_dicts(h, values)

\* the copy with the stack the reset gave it
Context_reset(c, r) == [heap |-> r.heap, obj |-> [c EXCEPT !.dicts = r.dicts]]

\* BaseContext.new(values)
Context_new(h, c, values) ==
    Context_reset(Context_copy(c), reset_dicts_of_copy(h, Context_copy(c), values))

\* an in-place update of the frames of a stack: the heap afterwards
updated(h, ids, r) == [heap |-> store(h, ids, r.dicts), dicts |-> ids, exc |-> r.exc]

\* BaseContext.__setitem__ on a stack of frame objects
obj_setitem(h, ids, key, value) == updated(h, ids, setitem(frames_of(h, ids), key, value))

\* BaseContext.set_upward on a stack of frame objects
obj_set_upward(h, ids, key, value) == updated(h, ids, set_upward(frames_of(h, ids), key, value))

\* BaseContext.__delitem__ on a stack of frame objects
obj_delitem(h, ids, key) == updated(h, ids, delitem(frames_of(h, ids), key))

\* the ContextDict that push made, as a new object on top of the stack
pushed(h, ids, r) ==
    IF r.exc # "none" THEN [heap |-> h, dicts |-> ids, exc |-> r.exc]
    ELSE [heap |-> Append(h, r.dicts[Len(r.dicts)]),
          dicts |-> Append(ids, Len(h) + 1), exc |-> "none"]

\* BaseContext.push on a stack of frame objects
obj_push(h, ids, args, kwargs) == pushed(h, ids, push(frames_of(h, ids), args, kwargs))

\* BaseContext.pop on a stack of frame objects
obj_pop(h, ids) ==
    [heap |-> h, dicts |-> IF Len(ids) = 1 THEN ids ELSE ButLast(ids),
     exc |-> pop(frames_of(h, ids)).exc]

\* the variables of the other specifications, at rest
FlatIdle ==
    /\ dicts = <<>> /\ last = <<>> /\ script = <<>> /\ scope = <<>>
    /\ template = NoTemplate /\ rendered = NotRendered

\* the last call: the operation, the Context it was made on, its outcome
HCall(op, on, part, exc) ==
    [op |-> op, on |-> on, part |-> part, exc |-> exc, values |-> <<>>]

\* the names of the Context objects
Names == {"c", "c2"}

\* values written by the calls
Vals == {"2"}

\* the dict_ arguments of Context(...): None, or the caller's dict
InitDicts == {<<>>, <<CallerDict>>}

\* the state after d = {'x': 1}; c = Context(dict_)
HeapStart(r) ==
    /\ heap = r.heap
    /\ ctxs = [c |-> r.obj, c2 |-> NoContext]

InitHeap ==
    /\ FlatIdle /\ RunIdle /\ LexIdle
    /\ \E dict_ \in InitDicts : HeapStart(Context_init(<<Dict1("x", "1")>>, dict_))
    /\ pstate = <<>>
    /\ hlast = HCall("init", "c", "user", "none")

\* the ids of the frames of a stack
Ids(ids) == {ids[i] : i \in 1..Len(ids)}

\* the dict objects the caller or a Context of cx still refers to
Live(cx) ==
    {CallerDict} \cup Ids(cx.c.dicts) \cup Ids(cx.c.render_context.dicts)
                 \cup Ids(cx.c2.dicts) \cup Ids(cx.c2.render_context.dicts)

\* the heap once the dict objects nothing refers to are dropped
collect(h, cx) == [j \in 1..Len(h) |-> IF j \in Live(cx) THEN h[j] ELSE EmptyDict]

\* the step of a call on the user variables of Context k with outcome r
OnUser(k, op, r) ==
    /\ heap' = collect(r.heap, [ctxs EXCEPT ![k].dicts = r.dicts])
    /\ ctxs' = [ctxs EXCEPT ![k].dicts = r.dicts]
    /\ hlast' = HCall(op, k, "user", r.exc)
    /\ UNCHANGED pstate
    /\ UNCHANGED <<flatvars, runvars, lexvars>>

\* c2 = c.new(values) has returned r
Newed(r, values) ==
    /\ heap' = r.heap
    /\ ctxs' = [ctxs EXCEPT !.c2 = r.obj]
    /\ hlast' = [HCall("new", "c", "user", "none") EXCEPT !.values = values]
    /\ UNCHANGED pstate
    /\ UNCHANGED <<flatvars, runvars, lexvars>>

\* c2 = c.new(values), values being None or the caller's dict
New(values) ==
    /\ ~ctxs.c2.made
    /\ Len(heap) < MaxObjs
    /\ Newed(Context_new(heap, ctxs.c, values), values)

\* c2 = c.new({'x': 2}): the dict is made, then passed
NewFresh ==
    /\ ~ctxs.c2.made
    /\ Len(heap) + 1 < MaxObjs
    /\ Newed(Context_new(Append(heap, Dict1("x", "2")), ctxs.c, <<Len(heap) + 1>>),
             <<Len(heap) + 1>>)

HSetItem(k, key, value) ==
    /\ ctxs[k].made
    /\ OnUser(k, "set", obj_setitem(heap, ctxs[k].dicts, key, value))

HSetUpward(k, key, value) ==
    /\ ctxs[k].made
    /\ OnUser(k, "set_upward", obj_set_upward(heap, ctxs[k].dicts, key, value))

HDelItem(k, key) ==
    /\ ctxs[k].made
    /\ OnUser(k, "delete", obj_delitem(heap, ctxs[k].dicts, key))

HPush(k, args) ==
    /\ ctxs[k].made
    /\ Len(heap) < MaxObjs
    /\ OnUser(k, "push", obj_push(heap, ctxs[k].dicts, args, EmptyDict))

HPop(k) ==
    /\ ctxs[k].made
    /\ OnUser(k, "pop", obj_pop(heap, ctxs[k].dicts))

\* the arguments of push on the Context objects
HPushArgs == {<<>>, <<DictArg(Dict1("x", "2"))>>}

\* the calls on the user variables of c and c2
UserCall ==
    \/ \E values \in InitDicts : New(values)
    \/ NewFresh
    \/ \E k \in Names, value \in Vals : HSetItem(k, "x", value)
    \/ \E k \in Names, value \in Vals : HSetUpward(k, "x", value)
    \/ \E k \in Names : HDelItem(k, "x")
    \/ \E k \in Names, args \in HPushArgs : HPush(k, args)
    \/ \E k \in Names : HPop(k)

NextHeap == UserCall

SpecHeap == InitHeap /\ [][NextHeap]_vars

-----------------------------------------------------------------------------
(* The render context of a Context, and RenderContext.push_state *)

\* the number of push_state blocks open at a time
MaxNest == 2

\* RenderContext.__getitem__(key): the top frame alone is looked at
RenderContext_getitem(ds, key) ==
    IF key \in DOMAIN ds[Len(ds)]
    THEN [ret |-> ds[Len(ds)][key], exc |-> "none"]
    ELSE [ret |-> "null", exc |-> "KeyError"]

\* RenderContext.__contains__(key)
RenderContext_contains(ds, key) == key \in DOMAIN ds[Len(ds)]

\* a get that searches every frame, as BaseContext.get does
RenderContext_get_any(ds, key, otherwise) == get(ds, key, otherwise)

\* RenderContext.get(key, otherwise)
RenderContext_get(ds, key, otherwise) ==
    IF key \in DOMAIN ds[Len(ds)] THEN ds[Len(ds)][key] ELSE otherwise

\* the value the calls on the render context write
RenderVal == "r"

\* the templates push_state is called with
Templates == {"t1", "t2"}

\* the step of a call on the render context of c with outcome r
OnRender(op, r) ==
    /\ heap' = collect(r.heap, [ctxs EXCEPT !.c.render_context.dicts = r.dicts])
    /\ ctxs' = [ctxs EXCEPT !.c.render_context.dicts = r.dicts]
    /\ hlast' = HCall(op, "c", "render", r.exc)
    /\ UNCHANGED pstate
    /\ UNCHANGED <<flatvars, runvars, lexvars>>

\* c.render_context[key] = value
RcSetItem(key, value) ==
    /\ ctxs.c.made
    /\ OnRender("set", obj_setitem(heap, ctxs.c.render_context.dicts, key, value))

\* c.render_context.push()
RcPush ==
    /\ Len(heap) < MaxObjs
    /\ OnRender("push", obj_push(heap, ctxs.c.render_context.dicts, <<>>, EmptyDict))

\* c.render_context.pop()
RcPop ==
    /\ ctxs.c.made
    /\ OnRender("pop", obj_pop(heap, ctxs.c.render_context.dicts))

\* an open push_state block: what it recorded on entry
Block(isolated, initial, entry) ==
    [isolated |-> isolated, initial |-> initial, entry |-> entry]

\* no push_state block is open, none was closed
NoBlocks == [open |-> <<>>, closed |-> Block(FALSE, "None", 0)]

\* push_state up to the yield: the template is recorded, and a frame pushed
\* when isolated_context
push_state_enter(h, rc, tpl, isolated_context) ==
    [heap |-> IF isolated_context THEN obj_push(h, rc.dicts, <<>>, EmptyDict).heap ELSE h,
     obj |-> [dicts |-> IF isolated_context
                        THEN obj_push(h, rc.dicts, <<>>, EmptyDict).dicts ELSE rc.dicts,
              template |-> tpl]]

\* an exit that leaves the template of the block in place
push_state_exit_keeps(h, rc, initial, isolated_context) ==
    [obj |-> [dicts |-> IF isolated_context THEN obj_pop(h, rc.dicts).dicts ELSE rc.dicts,
              template |-> rc.template],
     exc |-> IF isolated_context THEN obj_pop(h, rc.dicts).exc ELSE "none"]

\* push_state after the yield (finally): the template is put back, and a
\* frame popped when isolated_context
push_state_exit(h, rc, initial, isolated_context) ==
    [obj |-> [dicts |-> IF isolated_context THEN obj_pop(h, rc.dicts).dicts ELSE rc.dicts,
              template |-> initial],
     exc |-> IF isolated_context THEN obj_pop(h, rc.dicts).exc ELSE "none"]

\* the step that enters a push_state block, r being what entering gave
Entered(r, isolated) ==
    /\ heap' = r.heap
    /\ ctxs' = [ctxs EXCEPT !.c.render_context = r.obj]
    /\ pstate' = [pstate EXCEPT !.open =
                     Append(@, Block(isolated, ctxs.c.render_context.template,
                                     Len(ctxs.c.render_context.dicts)))]
    /\ hlast' = HCall("state_enter", "c", "render", "none")
    /\ UNCHANGED <<flatvars, runvars, lexvars>>

\* with c.render_context.push_state(template, isolated): entry
EnterState(tpl, isolated) ==
    /\ Len(pstate.open) < MaxNest
    /\ Len(heap) < MaxObjs
    /\ Entered(push_state_enter(heap, ctxs.c.render_context, tpl, isolated), isolated)

\* the step that leaves the innermost block, r being what the exit gave; the
\* exception of the body goes on unless the pop raises
Exited(r, raised) ==
    /\ heap' = collect(heap, [ctxs EXCEPT !.c.render_context = r.obj])
    /\ ctxs' = [ctxs EXCEPT !.c.render_context = r.obj]
    /\ pstate' = [open |-> ButLast(pstate.open), closed |-> pstate.open[Len(pstate.open)]]
    /\ hlast' = HCall("state_exit", "c", "render",
                      IF r.exc # "none" THEN r.exc ELSE IF raised THEN "BodyError" ELSE "none")
    /\ UNCHANGED <<flatvars, runvars, lexvars>>

\* the innermost push_state block ends: its body returned or raised
ExitState(raised) ==
    /\ pstate.open # <<>>
    /\ Exited(push_state_exit(heap, ctxs.c.render_context,
                              pstate.open[Len(pstate.open)].initial,
                              pstate.open[Len(pstate.open)].isolated), raised)

\* c = Context(dict_), no push_state block open
InitState ==
    /\ FlatIdle /\ RunIdle /\ LexIdle
    /\ \E dict_ \in InitDicts : HeapStart(Context_init(<<Dict1("x", "1")>>, dict_))
    /\ pstate = NoBlocks
    /\ hlast = HCall("init", "c", "user", "none")

\* the calls on the render context of c
RenderCall ==
    \/ RcSetItem("x", RenderVal)
    \/ RcPush
    \/ RcPop

\* calls on the user variables and on the render context of c
NextRenderContext ==
    \/ HSetItem("c", "x", "2")
    \/ HDelItem("c", "x")
    \/ HPush("c", <<>>)
    \/ HPop("c")
    \/ RenderCall

SpecRenderContext == InitState /\ [][NextRenderContext]_vars

\* c = Context(), no push_state block open
InitBlocks ==
    /\ FlatIdle /\ RunIdle /\ LexIdle
    /\ HeapStart(Context_init(<<Dict1("x", "1")>>, <<>>))
    /\ pstate = NoBlocks
    /\ hlast = HCall("init", "c", "user", "none")

\* the render context of c
RC == ctxs.c.render_context

\* push_state blocks, each for another template than the one that is being
\* rendered, and calls on the render context in their bodies
NextState ==
    \/ RenderCall
    \/ \E tpl \in Templates \ {RC.template}, isolated \in BOOLEAN : EnterState(tpl, isolated)
    \/ \E raised \in BOOLEAN : ExitState(raised)

SpecState == InitBlocks /\ [][NextState]_vars

-----------------------------------------------------------------------------
(* Renders of one compiled Template running at the same time *)

\* the threads, each rendering the Template with a Context of its own
Threads == {1, 2}

\* the sources of the Template the threads share
ThreadSources ==
    {Concat(<<s1, s2, s3>>) :
        s1 \in {<<"a">>, <<"{", "{", " ", "x", " ", "}", "}">>},
        s2 \in {<<"{", "%", " ", "t", " ", "a", "s", " ", "x", " ", "%", "}">>,
                <<"{", "%", " ", "t", " ", "%", "}">>, <<"\n">>},
        s3 \in {<<"{", "{", " ", "x", " ", "}", "}">>, <<"{", "#", " ", "a", " ", "#", "}">>}}

\* the value thread t binds x to in its Context
ThreadVal(t) == IF t = 1 THEN "1" ELSE "2"

\* Context({'x': value}) of a thread, before its render
ThreadStart(t) ==
    [pc |-> "ready", context0 |-> reset_dicts(<<Dict1("x", ThreadVal(t))>>),
     dicts |-> reset_dicts(<<Dict1("x", ThreadVal(t))>>),
     render_context |-> [dicts |-> reset_dicts(<<>>), template |-> "None"],
     template |-> "None", i |-> 0, bits |-> <<>>, output |-> <<>>]

\* Template(source) compiled, before any render
InitThreads ==
    /\ dicts = <<>> /\ last = <<>> /\ script = <<>> /\ scope = <<>>
    /\ \E source \in ThreadSources, engine \in Engines :
         template = Template_compiled(
                        [phase |-> "new", source |-> source, engine |-> engine,
                         tokens |-> <<>>, nodelist |-> NodeList, exc |-> NoExc,
                         template_debug |-> NoPosition],
                        compile_nodelist(source, engine.debug))
    /\ rendered = NotRendered
    /\ HeapIdle /\ LexIdle
    /\ threads = [t \in Threads |-> ThreadStart(t)]

\* the Context of another thread
context_of_other(ths, t) == ths[3 - t].dicts

\* the Context a render was called with: the one of its thread
context_of(ths, t) == ths[t].dicts

\* Template.render: push_state on the render context of the thread's Context
T_push_state(t) ==
    /\ threads[t].pc = "ready"
    /\ threads' = [threads EXCEPT
                      ![t].pc = "pushed",
                      ![t].render_context =
                          [dicts |-> push(threads[t].render_context.dicts, <<>>, EmptyDict).dicts,
                           template |-> "self"]]
    /\ UNCHANGED <<flatvars, heapvars, lexvars>>

\* Template.render: bind_template, then NodeList.render starts
T_bind_template(t) ==
    /\ threads[t].pc = "pushed"
    /\ threads' = [threads EXCEPT ![t].pc = "nodes", ![t].template = "self",
                                  ![t].i = 1, ![t].bits = <<>>]
    /\ UNCHANGED <<flatvars, heapvars, lexvars>>

\* the thread after the node it was at rendered to r
T_rendered(t, r) ==
    threads' = [threads EXCEPT ![t].i = @ + 1,
                               ![t].bits = Append(@, r.output),
                               ![t].dicts = r.dicts]

\* NodeList.render: one turn of the loop, the node rendered and its bit kept
T_node(t) ==
    /\ threads[t].pc = "nodes"
    /\ threads[t].i <= Len(template.nodelist.nodes)
    /\ T_rendered(t, render_node(template.nodelist.nodes[threads[t].i],
                                 context_of(threads, t), TRUE,
                                 template.engine.string_if_invalid))
    /\ UNCHANGED <<flatvars, heapvars, lexvars>>

\* NodeList.render joins the bits; bind_template and push_state are left
T_return(t) ==
    /\ threads[t].pc = "nodes"
    /\ threads[t].i > Len(template.nodelist.nodes)
    /\ threads' = [threads EXCEPT
                      ![t].pc = "done",
                      ![t].output = Concat(threads[t].bits),
                      ![t].template = "None",
                      ![t].render_context =
                          [dicts |-> pop(threads[t].render_context.dicts).dicts,
                           template |-> "None"]]
    /\ UNCHANGED <<flatvars, heapvars, lexvars>>

NextThreads ==
    \E t \in Threads :
        \/ T_push_state(t)
        \/ T_bind_template(t)
        \/ T_node(t)
        \/ T_return(t)

SpecThreads == InitThreads /\ [][NextThreads]_vars

-----------------------------------------------------------------------------
(* The two lexers on their own *)

\* the number of segments a source given to the lexers is made of
MaxLexSegs == 4

\* the pieces the sources given to the lexers are made of
LexSegments ==
    {<<"a">>, <<"\n">>, <<"{", "{">>,
     <<"{", "{", " ", "x", " ", "}", "}">>,
     <<"{", "#", " ", "a", " ", "#", "}">>,
     BLOCK_TAG_START \o S_verbatim \o <<"%", "}">>,
     BLOCK_TAG_START \o <<"e", "n", "d">> \o S_verbatim \o <<"%", "}">>,
     BLOCK_TAG_START \o S_verbatim \o <<" ", "b", "%", "}">>,
     BLOCK_TAG_START \o <<"e", "n", "d">> \o S_verbatim \o <<" ", "b", "%", "}">>}

LexSources == {Concat(ss) : ss \in UNION {[1..n -> LexSegments] : n \in 0..MaxLexSegs}}

\* a source, before Lexer(source).tokenize() and DebugLexer(source).tokenize()
InitLexer ==
    /\ FlatIdle /\ HeapIdle /\ RunIdle
    /\ \E source \in LexSources :
         lexed = [done |-> FALSE, source |-> source, fast |-> <<>>, tracking |-> <<>>]
    /\ parsed = <<>> /\ PartIdle

\* both lexers have tokenized the source
Tokenize ==
    /\ ~lexed.done
    /\ lexed' = [lexed EXCEPT !.done = TRUE,
                              !.fast = Lexer_tokenize(lexed.source),
                              !.tracking = DebugLexer_tokenize(lexed.source)]
    /\ UNCHANGED <<parsed, partvars>>
    /\ UNCHANGED <<flatvars, heapvars, runvars>>

NextLexer == Tokenize

SpecLexer == InitLexer /\ [][NextLexer]_vars

-----------------------------------------------------------------------------
(* The parser on its own: Parser(tokens).parse() as compile_nodelist calls
   it, and Parser(tokens).parse(parse_until) called on a new parser *)

MaxParseSegs == 4

ParseSegments ==
    {<<"a">>, <<"\n">>,
     <<"{", "{", " ", "x", " ", "}", "}">>,
     <<"{", "%", " ", "t", " ", "%", "}">>,
     <<"{", "%", " ", "b", " ", "%", "}">>,
     <<"{", "%", " ", "e", "n", "d", "b", " ", "%", "}">>,
     <<"{", "%", " ", "e", "n", "d", "b", " ", "a", " ", "%", "}">>}

ParseSources == {Concat(ss) : ss \in UNION {[1..n -> ParseSegments] : n \in 0..MaxParseSegs}}

\* the values parse_until takes
StopSets == {{S_endb}}

NoResult == [nodelist |-> NodeList, tokens |-> <<>>, command_stack |-> <<>>, exc |-> NoExc]

InitParser ==
    /\ FlatIdle /\ HeapIdle /\ RunIdle
    /\ lexed = <<>> /\ PartIdle
    /\ \E source \in ParseSources :
          parsed = [phase |-> "tokens", source |-> source,
                    tokens |-> DebugLexer_tokenize(source), parse_until |-> {},
                    result |-> NoResult]

Parsed(phase, parse_until, r) ==
    /\ parsed' = [parsed EXCEPT !.phase = phase, !.parse_until = parse_until, !.result = r]
    /\ UNCHANGED <<lexed, partvars>>
    /\ UNCHANGED <<flatvars, heapvars, runvars>>

\* Template.compile_nodelist: parser.parse()
Compile ==
    /\ parsed.phase = "tokens"
    /\ Parsed("compiled", {}, parse(parsed.tokens))

\* Parser(tokens).parse(parse_until)
ParseUntil ==
    /\ parsed.phase = "tokens"
    /\ \E parse_until \in StopSets :
          Parsed("parsed", parse_until, parse_loop(parsed.tokens, <<>>, parse_until, NodeList))

NextParser == Compile \/ ParseUntil

SpecParser == InitParser /\ [][NextParser]_vars

-----------------------------------------------------------------------------
(* Parser.extend_nodelist on its own: nodes appended to one NodeList *)

MaxNodes == 4

\* a node whose class sets must_be_first, as the node of an extends tag
FirstNode ==
    [kind |-> "ExtendsNode", s |-> <<>>, var |-> <<>>, target_var |-> <<>>,
     token |-> NoToken, must_be_first |-> TRUE]

\* the nodes extend_nodelist is called with
NodeArgs == {TextNode(<<"a">>), VariableNode(<<"x">>), SimpleNode(<<>>), FirstNode}

\* the token of the n-th call
NodeToken(n) ==
    Token("TEXT", <<>>, [start |-> n, end |-> n + 1], 1)

InitNodeList ==
    /\ FlatIdle /\ HeapIdle /\ RunIdle
    /\ lexed = <<>> /\ parsed = <<>> /\ expr = <<>> /\ library = <<>>
    /\ built = [nodelist |-> NodeList, calls |-> 0, node |-> FirstNode, exc |-> NoExc]

\* parser.extend_nodelist(nodelist, node, token), r being its outcome
Extended(node, r) ==
    /\ built' = [nodelist |-> r.nodelist, calls |-> built.calls + 1, node |-> node,
                 exc |-> r.exc]
    /\ UNCHANGED <<lexed, parsed, expr, library>>
    /\ UNCHANGED <<flatvars, heapvars, runvars>>

ExtendNodeList(node) ==
    /\ built.calls < MaxNodes
    /\ Extended(node, extend_nodelist(built.nodelist, node, NodeToken(built.calls)))

NextNodeList == \E node \in NodeArgs : ExtendNodeList(node)

SpecNodeList == InitNodeList /\ [][NextNodeList]_vars

-----------------------------------------------------------------------------
(* Parser.skip_past, called on a new parser and called while parse compiles
   a block tag *)

MaxSkipSegs == 3

SkipSegments ==
    {<<"a">>,
     <<"{", "{", " ", "e", "n", "d", "b", " ", "}", "}">>,
     <<"{", "%", " ", "b", " ", "%", "}">>,
     <<"{", "%", " ", "e", "n", "d", "b", " ", "%", "}">>,
     <<"{", "%", " ", "e", "n", "d", "b", " ", "a", " ", "%", "}">>,
     <<"{", "%", " ", "e", "n", "d", "b", "b", " ", "%", "}">>}

SkipSources == {Concat(ss) : ss \in UNION {[1..n -> SkipSegments] : n \in 0..MaxSkipSegs}}

\* the loop of skip_past: the tokens left when it ends, found when it ended
\* at the block token of the end tag
RECURSIVE skip_past_loop(_, _)
skip_past_loop(tokens, endtag) ==
    IF tokens = <<>> THEN [tokens |-> tokens, found |-> FALSE]
    ELSE IF tokens[1].token_type = "BLOCK" /\ tokens[1].contents = endtag
    THEN [tokens |-> next_token(tokens), found |-> TRUE]
    ELSE skip_past_loop(next_token(tokens), endtag)

\* skip_past after its loop ended with l
skipped_past(l, command_stack) ==
    [tokens |-> l.tokens,
     command_stack |-> IF l.found \/ command_stack = <<>> THEN command_stack
                       ELSE SubSeq(command_stack, 1, Len(command_stack) - 1),
     exc |-> IF l.found THEN NoExc ELSE unclosed_block_tag(command_stack)]

\* Parser.skip_past(endtag)
skip_past(tokens, command_stack, endtag) ==
    skipped_past(skip_past_loop(tokens, endtag), command_stack)

InitSkip ==
    /\ FlatIdle /\ HeapIdle /\ RunIdle
    /\ lexed = <<>> /\ PartIdle
    /\ \E source \in SkipSources :
          parsed = [phase |-> "tokens", source |-> source,
                    tokens |-> DebugLexer_tokenize(source), command_stack |-> <<>>,
                    result |-> [tokens |-> <<>>, command_stack |-> <<>>, exc |-> NoExc]]

\* Parser.parse takes a block token, puts its command on the command stack
\* and calls the compile function of the tag
CompileTag ==
    /\ parsed.phase = "tokens"
    /\ parsed.tokens # <<>>
    /\ parsed.tokens[1].token_type = "BLOCK"
    /\ split(parsed.tokens[1].contents) # <<>>
    /\ parsed' = [parsed EXCEPT
                     !.phase = "in_tag",
                     !.tokens = next_token(parsed.tokens),
                     !.command_stack = <<[command |-> split(parsed.tokens[1].contents)[1],
                                          token |-> parsed.tokens[1]]>>]
    /\ UNCHANGED <<lexed, partvars>>
    /\ UNCHANGED <<flatvars, heapvars, runvars>>

\* parser.skip_past('endb'), on a new parser or in the compile function
SkipPast ==
    /\ parsed.phase \in {"tokens", "in_tag"}
    /\ parsed' = [parsed EXCEPT
                     !.phase = "skipped",
                     !.result = skip_past(parsed.tokens, parsed.command_stack, S_endb)]
    /\ UNCHANGED <<lexed, partvars>>
    /\ UNCHANGED <<flatvars, heapvars, runvars>>

NextSkip == CompileTag \/ SkipPast

SpecSkip == InitSkip /\ [][NextSkip]_vars

-----------------------------------------------------------------------------
(* Variable: the construction from a string *)

\* s.endswith(suffix)
endswith(s, suffix) ==
    Len(s) >= Len(suffix) /\ SubSeq(s, Len(s) - Len(suffix) + 1, Len(s)) = suffix

\* a run of digits, single underscores allowed between two digits
IsDigitPart(s) ==
    /\ s # <<>>
    /\ \A i \in 1..Len(s) : s[i] \in {"2", "_"}
    /\ s[1] = "2" /\ s[Len(s)] = "2"
    /\ \A i \in 1..(Len(s) - 1) : ~(s[i] = "_" /\ s[i + 1] = "_")

\* digits "." digits, with one of the two sides allowed to be missing
IsMantissa(s) ==
    \/ IsDigitPart(s)
    \/ \E j \in 1..Len(s) :
          /\ s[j] = "."
          /\ \/ IsDigitPart(SubSeq(s, 1, j - 1)) /\ j = Len(s)
             \/ IsDigitPart(SubSeq(s, 1, j - 1)) /\ IsDigitPart(SubSeq(s, j + 1, Len(s)))
             \/ j = 1 /\ IsDigitPart(SubSeq(s, j + 1, Len(s)))

\* float(s) does not raise ValueError
IsFloat(s) ==
    \/ IsMantissa(s)
    \/ \E i \in 1..Len(s) :
          /\ s[i] = "e"
          /\ IsMantissa(SubSeq(s, 1, i - 1))
          /\ IsDigitPart(SubSeq(s, i + 1, Len(s)))

\* int(s) does not raise ValueError
IsInt(s) == IsDigitPart(s)

\* s.split(sep) for a separator of one character
RECURSIVE split_on(_, _)
split_on(s, sep) ==
    IF \A i \in 1..Len(s) : s[i] # sep THEN <<s>>
    ELSE LET i == CHOOSE k \in 1..Len(s) : s[k] = sep /\ \A j \in 1..(k - 1) : s[j] # sep
         IN  <<SubSeq(s, 1, i - 1)>> \o split_on(SubSeq(s, i + 1, Len(s)), sep)

\* the literal of a Variable: None, or a value of a type with its text
NoLiteral == [kind |-> "None", text |-> <<>>]
Literal(kind, text) == [kind |-> kind, text |-> text]

\* the lookups of a Variable: None, or a tuple of bits
NoLookups == [set |-> FALSE, bits |-> <<>>]
Lookups(bits) == [set |-> TRUE, bits |-> bits]

\* unescape_string_literal(s): the text between the quotes of a quoted
\* string (no backslash among the modelled characters)
unescape_string_literal(s) ==
    IF s = <<>> THEN [ret |-> <<>>, exc |-> "IndexError"]
    ELSE IF s[1] # "'" \/ s[Len(s)] # s[1] THEN [ret |-> <<>>, exc |-> "ValueError"]
    ELSE [ret |-> SubSeq(s, 2, Len(s) - 1), exc |-> "none"]

\* the literal self.literal holds when the numeric parse ends: the number,
\* and whether ValueError was raised
numeric(var) ==
    IF (\E i \in 1..Len(var) : var[i] \in {".", "e"})
    THEN IF IsFloat(var)
         THEN [literal |-> Literal("float", var), exc |-> IF endswith(var, <<".">>) THEN "ValueError" ELSE "none"]
         ELSE [literal |-> NoLiteral, exc |-> "ValueError"]
    ELSE IF IsInt(var)
         THEN [literal |-> Literal("int", var), exc |-> "none"]
         ELSE [literal |-> NoLiteral, exc |-> "ValueError"]

\* the Variable object with its attributes; exc is what __init__ raised
VariableObject(var, literal, lookups, translate, exc) ==
    [var |-> var, literal |-> literal, lookups |-> lookups, translate |-> translate, exc |-> exc]

\* the part of Variable.__init__ that handles the ValueError of the numeric
\* parse: text is var without its translation wrapper
non_numeric(var, literal, translate, text) ==
    IF unescape_string_literal(text).exc = "none"
    THEN VariableObject(var, Literal("str", unescape_string_literal(text).ret), NoLookups, translate, "none")
    ELSE IF unescape_string_literal(text).exc = "IndexError"
    THEN VariableObject(var, literal, NoLookups, translate, "IndexError")
    ELSE IF find(text, <<".", "_">>) > -1 \/ text[1] = "_"
    THEN VariableObject(var, literal, NoLookups, translate, "TemplateSyntaxError")
    ELSE VariableObject(var, literal, Lookups(split_on(text, ".")), translate, "none")

\* Variable.__init__(var)
Variable_init(var) ==
    IF numeric(var).exc = "none"
    THEN VariableObject(var, numeric(var).literal, NoLookups, FALSE, "none")
    ELSE IF startswith(var, <<"_", "(">>) /\ endswith(var, <<")">>)
    THEN non_numeric(var, numeric(var).literal, TRUE, SubSeq(var, 3, Len(var) - 1))
    ELSE non_numeric(var, numeric(var).literal, FALSE, var)

-----------------------------------------------------------------------------
(* The Variable as a state machine: construct it from a string *)

MaxVarLen == 4

VarChars == {"2", ".", "e", "a", "_", "'", "(", ")"}

RECURSIVE VarStrings(_)
VarStrings(n) ==
    IF n = 0 THEN {<<>>}
    ELSE VarStrings(n - 1) \cup {Append(s, c) : s \in {t \in VarStrings(n - 1) : Len(t) = n - 1}, c \in VarChars}

NoVariable == VariableObject(<<>>, NoLiteral, NoLookups, FALSE, "none")

InitVariable ==
    /\ FlatIdle /\ HeapIdle /\ RunIdle
    /\ lexed = <<>> /\ parsed = <<>> /\ built = <<>> /\ library = <<>>
    /\ \E var \in VarStrings(MaxVarLen) :
          expr = [phase |-> "string", var |-> var, variable |-> NoVariable]

\* variable = Variable(var)
Construct ==
    /\ expr.phase = "string"
    /\ expr' = [expr EXCEPT !.phase = "constructed", !.variable = Variable_init(expr.var)]
    /\ UNCHANGED <<lexed, parsed, built, library>>
    /\ UNCHANGED <<flatvars, heapvars, runvars>>

NextVariable == Construct

SpecVariable == InitVariable /\ [][NextVariable]_vars

-----------------------------------------------------------------------------
(* Variable and FilterExpression: the values a context holds are objects of a
   fixed world, named by strings; "CONTEXT" names the context itself and
   "INVALID" the engine's string_if_invalid, "INVALID0" its first character *)

\* an object of the world: its type, its content and, for a callable, its
\* flags, what calling it without arguments raises and what it returns
Object(kind, content, call) == [kind |-> kind, content |-> content, call |-> call]

NotCallable ==
    [do_not_call_in_templates |-> FALSE, alters_data |-> FALSE, requires_args |-> FALSE,
     raises |-> "none", returns |-> "None"]

\* def f(): return returns, with the flags set on it
Func(do_not_call, alters, requires_args, raises, returns) ==
    Object("function", <<>>,
           [do_not_call_in_templates |-> do_not_call, alters_data |-> alters,
            requires_args |-> requires_args, raises |-> raises, returns |-> returns])

World ==
    [x \in {"5", "dc", "db", "de", "dbe", "ob", "of", "lb", "f", "f_dnc", "f_alt", "f_args",
            "f_type", "f_silent", "f_loud", "INVALID", "INVALID0", "CONTEXT", "None",
            "LITERAL", "LAZY"} |->
        CASE x = "5" -> Object("int", <<>>, NotCallable)
          [] x = "dc" -> Object("dict", [k \in {"c"} |-> "5"], NotCallable)
          [] x = "db" -> Object("dict", [k \in {"b"} |-> "dc"], NotCallable)
          [] x = "de" -> Object("dict", <<>>, NotCallable)
          [] x = "dbe" -> Object("dict", [k \in {"b"} |-> "de"], NotCallable)
          [] x = "ob" -> Object("object", [k \in {"b"} |-> "dc"], NotCallable)
          [] x = "of" -> Object("object", [k \in {"b"} |-> "f"], NotCallable)
          [] x = "lb" -> Object("list", <<"dc">>, NotCallable)
          [] x = "f" -> Func(FALSE, FALSE, FALSE, "none", "dc")
          [] x = "f_dnc" -> Func(TRUE, FALSE, FALSE, "none", "dc")
          [] x = "f_alt" -> Func(FALSE, TRUE, FALSE, "none", "dc")
          [] x = "f_args" -> Func(FALSE, FALSE, TRUE, "TypeError", "dc")
          [] x = "f_type" -> Func(FALSE, FALSE, FALSE, "TypeError", "dc")
          [] x = "f_silent" -> Func(FALSE, FALSE, FALSE, "SilentError", "dc")
          [] x = "f_loud" -> Func(FALSE, FALSE, FALSE, "LoudError", "dc")
          [] x = "INVALID" -> Object("str", <<>>, NotCallable)
          [] x = "INVALID0" -> Object("str", <<>>, NotCallable)
          [] x = "CONTEXT" -> Object("Context", <<>>, NotCallable)
          [] x = "LITERAL" -> Object("literal", <<>>, NotCallable)
          [] x = "LAZY" -> Object("lazy", <<>>, NotCallable)
          [] x = "None" -> Object("NoneType", <<>>, NotCallable)]

\* int(bit): the characters of the bits of the modelled paths
Digits == {"0"}

\* current[key], key a str
subscript(current, key, ds) ==
    CASE World[current].kind = "Context" ->
             [ret |-> getitem(ds, key).ret,
              exc |-> IF getitem(ds, key).exc = "none" THEN "none" ELSE "KeyError"]
      [] World[current].kind = "dict" ->
             IF key \in DOMAIN World[current].content
             THEN [ret |-> World[current].content[key], exc |-> "none"]
             ELSE [ret |-> "None", exc |-> "KeyError"]
      [] OTHER -> [ret |-> "None", exc |-> "TypeError"]

\* getattr(current, bit); on a context getattr(type(current), bit) either
\* raises AttributeError or is a class attribute, which the code refuses
attribute(current, bit) ==
    CASE World[current].kind = "Context" -> [ret |-> "None", exc |-> "AttributeError"]
      [] World[current].kind = "object" ->
             IF bit \in DOMAIN World[current].content
             THEN [ret |-> World[current].content[bit], exc |-> "none"]
             ELSE [ret |-> "None", exc |-> "AttributeError"]
      [] OTHER -> [ret |-> "None", exc |-> "AttributeError"]

\* current[int(bit)]
index(current, bit, string_if_invalid) ==
    IF bit \notin Digits THEN [ret |-> "None", exc |-> "ValueError"]
    ELSE CASE World[current].kind = "list" ->
                  IF World[current].content # <<>>
                  THEN [ret |-> World[current].content[1], exc |-> "none"]
                  ELSE [ret |-> "None", exc |-> "IndexError"]
           [] World[current].kind \in {"dict", "Context"} -> [ret |-> "None", exc |-> "KeyError"]
           [] World[current].kind = "str" ->
                  IF current = "INVALID" /\ string_if_invalid # <<>>
                  THEN [ret |-> "INVALID0", exc |-> "none"]
                  ELSE IF current = "INVALID0"
                  THEN [ret |-> "INVALID0", exc |-> "none"]
                  ELSE [ret |-> "None", exc |-> "IndexError"]
           [] OTHER -> [ret |-> "None", exc |-> "TypeError"]

\* one bit of the path by dictionary lookup alone
lookup_bit_mapping_only(current, bit, ds, string_if_invalid) ==
    IF subscript(current, bit, ds).exc = "none" THEN subscript(current, bit, ds)
    ELSE [ret |-> "None", exc |-> "VariableDoesNotExist"]

\* one bit of the path: dictionary lookup, then attribute lookup, then
\* list-index lookup, VariableDoesNotExist when the three fail
lookup_bit(current, bit, ds, string_if_invalid) ==
    IF subscript(current, bit, ds).exc = "none" THEN subscript(current, bit, ds)
    ELSE IF attribute(current, bit).exc = "none" THEN attribute(current, bit)
    ELSE IF index(current, bit, string_if_invalid).exc = "none"
    THEN index(current, bit, string_if_invalid)
    ELSE [ret |-> "None", exc |-> "VariableDoesNotExist"]

\* every callable value is called, whatever its flags
call_any(current) ==
    IF World[current].kind # "function" THEN [ret |-> current, exc |-> "none", called |-> FALSE]
    ELSE IF World[current].call.raises = "none"
    THEN [ret |-> World[current].call.returns, exc |-> "none", called |-> TRUE]
    ELSE IF World[current].call.raises = "TypeError" /\ World[current].call.requires_args
    THEN [ret |-> "INVALID", exc |-> "none", called |-> TRUE]
    ELSE [ret |-> "None", exc |-> World[current].call.raises, called |-> TRUE]

\* what becomes of a callable value: kept, replaced, or called; called says
\* whether current() was evaluated
call(current) ==
    LET c == World[current].call
    IN  IF World[current].kind # "function" THEN [ret |-> current, exc |-> "none", called |-> FALSE]
        ELSE IF c.do_not_call_in_templates THEN [ret |-> current, exc |-> "none", called |-> FALSE]
        ELSE IF c.alters_data THEN [ret |-> "INVALID", exc |-> "none", called |-> FALSE]
        ELSE IF c.raises = "none" THEN [ret |-> c.returns, exc |-> "none", called |-> TRUE]
        ELSE IF c.raises = "TypeError" /\ c.requires_args
        THEN [ret |-> "INVALID", exc |-> "none", called |-> TRUE]
        ELSE [ret |-> "None", exc |-> c.raises, called |-> TRUE]

\* the exceptions that carry silent_variable_failure = True
Silent == {"SilentError"}

\* Variable._resolve_lookup from bit k on, inside the catch-all try; calls
\* lists the callables that were called
RECURSIVE resolve_bits(_, _, _, _, _, _)

\* the value found under bit k is called if it is to be
bit_called(lookups, k, c, calls, ds, string_if_invalid) ==
    IF c.exc # "none" THEN [ret |-> "None", exc |-> c.exc, calls |-> calls]
    ELSE resolve_bits(lookups, k + 1, c.ret, calls, ds, string_if_invalid)

\* bit k was looked up in current with the outcome l
bit_looked(lookups, k, l, calls, ds, string_if_invalid) ==
    IF l.exc # "none" THEN [ret |-> "None", exc |-> l.exc, calls |-> calls]
    ELSE bit_called(lookups, k, call(l.ret),
                    IF call(l.ret).called THEN Append(calls, l.ret) ELSE calls,
                    ds, string_if_invalid)

resolve_bits(lookups, k, current, calls, ds, string_if_invalid) ==
    IF k > Len(lookups) THEN [ret |-> current, exc |-> "none", calls |-> calls]
    ELSE bit_looked(lookups, k, lookup_bit(current, key_of(lookups[k]), ds, string_if_invalid),
                    calls, ds, string_if_invalid)

\* Variable._resolve_lookup(context): an exception that carries
\* silent_variable_failure gives string_if_invalid, any other is raised again
silenced(r) ==
    IF r.exc \in Silent THEN [ret |-> "INVALID", exc |-> "none", calls |-> r.calls]
    ELSE r

resolve_lookup(lookups, ds, string_if_invalid) ==
    silenced(resolve_bits(lookups, 1, "CONTEXT", <<>>, ds, string_if_invalid))

\* the translation of the value r of a Variable marked for it: value.replace
\* of a str, a lazy translation of the result
translated(r, translate) ==
    IF r.exc = "none" /\ translate
    THEN IF World[r.ret].kind \in {"str", "literal"}
         THEN [ret |-> "LAZY", exc |-> "none", calls |-> r.calls]
         ELSE [ret |-> "None", exc |-> "AttributeError", calls |-> r.calls]
    ELSE r

\* Variable.resolve(context)
Variable_resolve(variable, ds, string_if_invalid) ==
    translated(IF variable.lookups.set
               THEN resolve_lookup(variable.lookups.bits, ds, string_if_invalid)
               ELSE [ret |-> "LITERAL", exc |-> "none", calls |-> <<>>],
               variable.translate)

\* a value as the text the filters work on: a str is its characters, any
\* other object the one-element text of its name
text_of(value, variable, string_if_invalid) ==
    CASE value = "INVALID" -> string_if_invalid
      [] value = "INVALID0" -> <<string_if_invalid[1]>>
      [] value = "LITERAL" -> variable.literal.text
      [] value = "LAZY" -> <<"_">> \o variable.literal.text
      [] OTHER -> <<value>>

\* format % arg for one argument, from the left; used counts the arguments
\* converted so far, out is the text so far
RECURSIVE percent_from(_, _, _, _)
percent_from(format, arg, used, out) ==
    IF format = <<>>
    THEN [ret |-> out, exc |-> IF used = 1 THEN "none" ELSE "TypeError"]
    ELSE IF format[1] # "%"
    THEN percent_from(Rest(format), arg, used, Append(out, format[1]))
    ELSE IF Len(format) = 1 THEN [ret |-> out, exc |-> "ValueError"]
    ELSE IF format[2] = "%"
    THEN percent_from(SubSeq(format, 3, Len(format)), arg, used, Append(out, "%"))
    ELSE IF format[2] = "s"
    THEN IF used = 1 THEN [ret |-> out, exc |-> "TypeError"]
         ELSE percent_from(SubSeq(format, 3, Len(format)), arg, 1, out \o arg)
    ELSE [ret |-> out, exc |-> "ValueError"]

\* string_if_invalid % self.var
percent(format, arg) ==
    IF percent_from(format, arg, 0, <<>>).exc = "none" THEN percent_from(format, arg, 0, <<>>)
    ELSE [ret |-> <<>>, exc |-> percent_from(format, arg, 0, <<>>).exc]

\* what the regular expression finds in a token: the groups of one match,
\* an empty text for a group that did not take part
Match(var, constant, filter_name, constant_arg, var_arg) ==
    [var |-> var, constant |-> constant, filter_name |-> filter_name,
     constant_arg |-> constant_arg, var_arg |-> var_arg]

\* the filters of the parser: what getfullargspec gives, and the flags
Filter(name, alen, dlen, needs_autoescape) ==
    [name |-> name, alen |-> alen, dlen |-> dlen, needs_autoescape |-> needs_autoescape]

filters ==
    [n \in {"p", "q"} |->
        IF n = "p" THEN Filter("p", 2, 1, FALSE) ELSE Filter("q", 2, 1, TRUE)]

\* Parser.find_filter
find_filter(filter_name) ==
    IF key_of(filter_name) \in DOMAIN filters
    THEN [ret |-> filters[key_of(filter_name)], exc |-> "none"]
    ELSE [ret |-> Filter("", 0, 0, FALSE), exc |-> "TemplateSyntaxError"]

\* FilterExpression.args_check
args_check(func, provided) ==
    IF Len(provided) + 1 < func.alen - func.dlen \/ Len(provided) + 1 > func.alen
    THEN "TemplateSyntaxError" ELSE "none"

\* one argument of a filter: (lookup, arg)
Arg(lookup, variable) == [lookup |-> lookup, arg |-> variable]

\* the args list of one match
match_args(match) ==
    IF match.constant_arg # <<>> THEN <<Arg(FALSE, Variable_init(match.constant_arg))>>
    ELSE IF match.var_arg # <<>> THEN <<Arg(TRUE, Variable_init(match.var_arg))>>
    ELSE <<>>

\* what constructing the Variables of the args raised
args_exc(args) ==
    IF args # <<>> /\ args[1].arg.exc # "none" THEN args[1].arg.exc ELSE "none"

\* the loop of FilterExpression.__init__ over the matches after the first
RECURSIVE filters_from(_, _, _)
filters_from(matches, k, sofar) ==
    IF k > Len(matches) THEN [filters |-> sofar, exc |-> "none"]
    ELSE IF args_exc(match_args(matches[k])) # "none"
    THEN [filters |-> sofar, exc |-> args_exc(match_args(matches[k]))]
    ELSE IF find_filter(matches[k].filter_name).exc # "none"
    THEN [filters |-> sofar, exc |-> "TemplateSyntaxError"]
    ELSE IF args_check(find_filter(matches[k].filter_name).ret, match_args(matches[k])) # "none"
    THEN [filters |-> sofar, exc |-> "TemplateSyntaxError"]
    ELSE filters_from(matches, k + 1,
                      Append(sofar, [func |-> find_filter(matches[k].filter_name).ret,
                                     args |-> match_args(matches[k])]))

\* FilterExpression.__init__ on the matches of the token: var is a Variable
\* unless the first match is a constant
expression_of(matches, first, rest) ==
    IF matches[1].constant = <<>> /\ matches[1].var = <<>>
    THEN [var |-> NoVariable, is_variable |-> FALSE, filters |-> <<>>,
          exc |-> "TemplateSyntaxError"]
    ELSE IF first.exc # "none"
    THEN [var |-> first, is_variable |-> FALSE, filters |-> <<>>, exc |-> first.exc]
    ELSE [var |-> first, is_variable |-> matches[1].constant = <<>>,
          filters |-> rest.filters, exc |-> rest.exc]

FilterExpression_init(matches) ==
    expression_of(matches,
                  IF matches[1].constant # <<>> THEN Variable_init(matches[1].constant)
                  ELSE Variable_init(matches[1].var),
                  filters_from(matches, 2, <<>>))

\* func(obj, *arg_vals): the filters are functions of which nothing is
\* known, so the result is the text of the call
apply(func, obj, arg_vals, autoescape) ==
    <<func.name, "(">> \o obj
        \o (IF arg_vals = <<>> THEN <<>> ELSE <<",">> \o arg_vals[1])
        \o (IF func.needs_autoescape THEN <<",", autoescape>> ELSE <<>>)
        \o <<")">>

\* the arg_vals of one filter
arg_val(r, variable, string_if_invalid) ==
    [ret |-> IF r.exc = "none" THEN <<text_of(r.ret, variable, string_if_invalid)>> ELSE <<>>,
     exc |-> r.exc, calls |-> r.calls]

arg_vals_of(args, ds, string_if_invalid) ==
    IF args = <<>> THEN [ret |-> <<>>, exc |-> "none", calls |-> <<>>]
    ELSE IF ~args[1].lookup
    THEN [ret |-> <<args[1].arg.literal.text>>, exc |-> "none", calls |-> <<>>]
    ELSE arg_val(Variable_resolve(args[1].arg, ds, string_if_invalid), args[1].arg,
                 string_if_invalid)

\* the loop of FilterExpression.resolve over self.filters from filter k on
RECURSIVE apply_filters(_, _, _, _, _, _, _)

\* filter k is called and its result dropped: the next filter gets obj again
apply_filter_unchained(fs, k, obj, ds, string_if_invalid, calls, applied, a) ==
    IF a.exc # "none"
    THEN [ret |-> <<>>, exc |-> a.exc, calls |-> calls \o a.calls, applied |-> applied]
    ELSE apply_filters(fs, k + 1, obj, ds, string_if_invalid, calls \o a.calls,
                       Append(applied, [func |-> fs[k].func.name, obj |-> obj,
                                        arg_vals |-> a.ret]))

\* filter k with its arg_vals a
apply_filter(fs, k, obj, ds, string_if_invalid, calls, applied, a) ==
    IF a.exc # "none"
    THEN [ret |-> <<>>, exc |-> a.exc, calls |-> calls \o a.calls, applied |-> applied]
    ELSE apply_filters(fs, k + 1, apply(fs[k].func, obj, a.ret, "True"), ds,
                       string_if_invalid, calls \o a.calls,
                       Append(applied, [func |-> fs[k].func.name, obj |-> obj,
                                        arg_vals |-> a.ret]))

apply_filters(fs, k, obj, ds, string_if_invalid, calls, applied) ==
    IF k > Len(fs) THEN [ret |-> obj, exc |-> "none", calls |-> calls, applied |-> applied]
    ELSE apply_filter(fs, k, obj, ds, string_if_invalid, calls, applied,
                      arg_vals_of(fs[k].args, ds, string_if_invalid))

\* resolve with the substitute of an unresolvable variable sent through the
\* chain whatever string_if_invalid is
expression_resolved_filtered(fe, ds, string_if_invalid, ignore_failures, r) ==
    IF r.exc = "none"
    THEN apply_filters(fe.filters, 1, text_of(r.ret, fe.var, string_if_invalid), ds,
                       string_if_invalid, r.calls, <<>>)
    ELSE IF r.exc # "VariableDoesNotExist"
    THEN [ret |-> <<>>, exc |-> r.exc, calls |-> r.calls, applied |-> <<>>]
    ELSE IF ignore_failures
    THEN apply_filters(fe.filters, 1, <<"None">>, ds, string_if_invalid, r.calls, <<>>)
    ELSE apply_filters(fe.filters, 1, string_if_invalid, ds, string_if_invalid, r.calls, <<>>)

\* FilterExpression.resolve(context, ignore_failures)
\* r is what self.var.resolve(context) gave
expression_resolved(fe, ds, string_if_invalid, ignore_failures, r) ==
    IF r.exc = "none"
    THEN apply_filters(fe.filters, 1, text_of(r.ret, fe.var, string_if_invalid), ds,
                       string_if_invalid, r.calls, <<>>)
    ELSE IF r.exc # "VariableDoesNotExist"
    THEN [ret |-> <<>>, exc |-> r.exc, calls |-> r.calls, applied |-> <<>>]
    ELSE IF ignore_failures
    THEN apply_filters(fe.filters, 1, <<"None">>, ds, string_if_invalid, r.calls, <<>>)
    ELSE IF string_if_invalid # <<>>
    THEN IF find(string_if_invalid, <<"%", "s">>) > -1
         THEN [ret |-> percent(string_if_invalid, fe.var.var).ret,
               exc |-> percent(string_if_invalid, fe.var.var).exc,
               calls |-> r.calls, applied |-> <<>>]
         ELSE [ret |-> string_if_invalid, exc |-> "none", calls |-> r.calls, applied |-> <<>>]
    ELSE apply_filters(fe.filters, 1, string_if_invalid, ds, string_if_invalid, r.calls, <<>>)

FilterExpression_resolve(fe, ds, string_if_invalid, ignore_failures) ==
    IF ~fe.is_variable
    THEN apply_filters(fe.filters, 1, fe.var.literal.text, ds, string_if_invalid, <<>>, <<>>)
    ELSE expression_resolved(fe, ds, string_if_invalid, ignore_failures,
                             Variable_resolve(fe.var, ds, string_if_invalid))

-----------------------------------------------------------------------------
(* The expression as a state machine: the matches of a token are compiled
   into a FilterExpression, which is resolved against a context, or its
   Variable is resolved alone *)

MaxPath == 3
MaxFilters == 2

\* the values the context may hold under a name
Values ==
    {"5", "dc", "db", "de", "dbe", "ob", "of", "lb", "f", "f_dnc", "f_alt", "f_args",
     "f_type", "f_silent", "f_loud"}

\* the configured string_if_invalid
InvalidStrings == {<<>>, <<"N">>, <<"N", "%", "s">>, <<"%", "s", "%", "s">>}

\* the dotted paths of up to n bits
RECURSIVE Paths(_)
Paths(n) ==
    IF n = 1 THEN {<<b>> : b \in {"a", "b", "c", "0"}}
    ELSE Paths(n - 1) \cup
         {p \o <<".", b>> : p \in {q \in Paths(n - 1) : Len(q) = 2 * n - 3},
                            b \in {"a", "b", "c", "0"}}

\* Context({}) and Context({'a': value})
ContextsOf(name, values) ==
    {<<builtins, EmptyDict>>} \cup {<<builtins, Dict1(name, v)>> : v \in values}

NoExpression == [var |-> NoVariable, is_variable |-> FALSE, filters |-> <<>>, exc |-> "none"]

NotResolved ==
    [ret |-> <<>>, exc |-> "none", calls |-> <<>>, applied |-> <<>>, by |-> "none",
     ignore_failures |-> FALSE]

Expression(matches, ds, string_if_invalid) ==
    [phase |-> "token", matches |-> matches, dicts |-> ds,
     string_if_invalid |-> string_if_invalid, fe |-> NoExpression, result |-> NotResolved]

ExprIdle ==
    /\ FlatIdle /\ HeapIdle /\ RunIdle
    /\ lexed = <<>> /\ parsed = <<>> /\ built = <<>> /\ library = <<>>

\* a path, a context that holds a value under a, an engine
InitLookup ==
    /\ ExprIdle
    /\ \E path \in Paths(MaxPath), ds \in ContextsOf("a", Values),
          string_if_invalid \in InvalidStrings :
          expr = Expression(<<Match(path, <<>>, <<>>, <<>>, <<>>)>>, ds, string_if_invalid)

\* fe = FilterExpression(token, parser)
Compile_filter ==
    /\ expr.phase = "token"
    /\ expr' = [expr EXCEPT !.fe = FilterExpression_init(expr.matches),
                            !.phase = IF FilterExpression_init(expr.matches).exc = "none"
                                      THEN "compiled" ELSE "refused"]
    /\ UNCHANGED <<lexed, parsed, built, library>>
    /\ UNCHANGED <<flatvars, heapvars, runvars>>

Resolved(r, by, ignore_failures) ==
    /\ expr' = [expr EXCEPT !.phase = "resolved",
                            !.result = [ret |-> r.ret, exc |-> r.exc, calls |-> r.calls,
                                        applied |-> r.applied, by |-> by,
                                        ignore_failures |-> ignore_failures]]
    /\ UNCHANGED <<lexed, parsed, built, library>>
    /\ UNCHANGED <<flatvars, heapvars, runvars>>

\* fe.resolve(context, ignore_failures)
Resolve(ignore_failures) ==
    /\ expr.phase = "compiled"
    /\ Resolved(FilterExpression_resolve(expr.fe, expr.dicts, expr.string_if_invalid,
                                         ignore_failures),
                "FilterExpression", ignore_failures)

\* the value of Variable.resolve as the text the results are kept as
resolved_text(r, variable, string_if_invalid) ==
    [ret |-> IF r.exc = "none" THEN text_of(r.ret, variable, string_if_invalid) ELSE <<>>,
     exc |-> r.exc, calls |-> r.calls, applied |-> <<>>]

\* fe.var.resolve(context)
ResolveVariable ==
    /\ expr.phase = "compiled"
    /\ expr.fe.is_variable
    /\ Resolved(resolved_text(Variable_resolve(expr.fe.var, expr.dicts, expr.string_if_invalid),
                              expr.fe.var, expr.string_if_invalid),
                "Variable", FALSE)

NextLookup ==
    \/ Compile_filter
    \/ \E ignore_failures \in BOOLEAN : Resolve(ignore_failures)
    \/ ResolveVariable

SpecLookup == InitLookup /\ [][NextLookup]_vars

-----------------------------------------------------------------------------
(* The expression with a chain of filters *)

\* {{ a }} or {{ 'a' }} at the head of the token
HeadMatches ==
    {Match(<<"a">>, <<>>, <<>>, <<>>, <<>>), Match(<<>>, <<"'", "a", "'">>, <<>>, <<>>, <<>>)}

\* |p, |p:'a', |p:b and the same for q
FilterMatches ==
    {Match(<<>>, <<>>, <<n>>, c, v) :
        n \in {"p", "q"},
        c \in {<<>>, <<"'", "a", "'">>},
        v \in {<<>>, <<"b">>}} \ {Match(<<>>, <<>>, <<n>>, <<"'", "a", "'">>, <<"b">>) : n \in {"p", "q"}}

\* the chains of up to n filters
RECURSIVE Chains(_)
Chains(n) ==
    IF n = 0 THEN {<<>>}
    ELSE Chains(n - 1) \cup
         {Append(c, m) : c \in {d \in Chains(n - 1) : Len(d) = n - 1}, m \in FilterMatches}

\* the context {'a': av, 'b': bv}, a name left out when its value is "absent"
Frame(av, bv) ==
    [k \in {n \in {"a", "b"} : (n = "a" /\ av # "absent") \/ (n = "b" /\ bv # "absent")} |->
        IF k = "a" THEN av ELSE bv]

InitFilter ==
    /\ ExprIdle
    /\ \E head \in HeadMatches, chain \in Chains(MaxFilters),
          av \in {"absent", "5", "f_silent", "f_loud"}, bv \in {"absent", "5"},
          string_if_invalid \in InvalidStrings :
          expr = Expression(<<head>> \o chain, <<builtins, Frame(av, bv)>>, string_if_invalid)

SpecFilter == InitFilter /\ [][NextLookup]_vars

-----------------------------------------------------------------------------
(* Library: the registry of tags and filters.  A Library is its two dicts;
   funcs holds the attributes of the function objects, which registering a
   filter sets *)

\* an argument of tag() and filter(): None, a str or a function
None == [kind |-> "None", v |-> ""]
Str(s) == [kind |-> "str", v |-> s]
Fn(f) == [kind |-> "function", v |-> f]

\* the attributes filter() may set, "unset" for hasattr(...) = False
Flags(expects_localtime, is_safe, needs_autoescape) ==
    [expects_localtime |-> expects_localtime, is_safe |-> is_safe,
     needs_autoescape |-> needs_autoescape]

NoFlags == Flags("unset", "unset", "unset")

FlagNames == {"expects_localtime", "is_safe", "needs_autoescape"}

\* def f, def g, and w = a wrapper around g with w._decorated_function = g
FunctionObject(name, decorated) ==
    [name |-> name, decorated |-> decorated, flags |-> NoFlags, filter_name |-> "unset"]

Functions ==
    [f \in {"f", "g", "w"} |->
        CASE f = "f" -> FunctionObject("f", "none")
          [] f = "g" -> FunctionObject("g", "none")
          [] f = "w" -> FunctionObject("w", "g")]

\* a dict key that is a function object, not a str
FunctionKey == [f \in {"f", "g", "w"} |-> IF f = "f" THEN "<f>" ELSE IF f = "g" THEN "<g>" ELSE "<w>"]

\* the key a name argument is in tags and filters
dict_key(name) == IF name.kind = "function" THEN FunctionKey[name.v] ELSE name.v

\* what a call returns: a function, or one of the decorators
Returned(kind, func, name, flags) == [kind |-> kind, func |-> func, name |-> name, flags |-> flags]

ReturnsNothing == Returned("none", "", None, NoFlags)

\* Library()
Library_init(funcs) == [tags |-> EmptyDict, filters |-> EmptyDict, funcs |-> funcs]

\* getattr(func, "_decorated_function", func).__name__
decorated_name(lib, func) ==
    IF lib.funcs[func].decorated # "none" THEN lib.funcs[lib.funcs[func].decorated].name
    ELSE lib.funcs[func].name

\* tag_function registering under func.__name__, a wrapper under its own
tag_function_plain(lib, func) ==
    [lib |-> [lib EXCEPT !.tags = DictSet(lib.tags, lib.funcs[func].name, func)],
     ret |-> Returned("function", func, None, NoFlags), exc |-> "none"]

\* Library.tag_function(func)
tag_function(lib, func) ==
    [lib |-> [lib EXCEPT !.tags = DictSet(lib.tags, decorated_name(lib, func), func)],
     ret |-> Returned("function", func, None, NoFlags), exc |-> "none"]

\* Library.tag(name, compile_function)
tag(lib, name, compile_function) ==
    IF name.kind = "None" /\ compile_function.kind = "None"
    THEN [lib |-> lib, ret |-> Returned("tag_function", "", None, NoFlags), exc |-> "none"]
    ELSE IF name.kind # "None" /\ compile_function.kind = "None"
    THEN IF name.kind = "function" THEN tag_function(lib, name.v)
         ELSE [lib |-> lib, ret |-> Returned("tag.dec", "", name, NoFlags), exc |-> "none"]
    ELSE IF name.kind # "None" /\ compile_function.kind # "None"
    THEN [lib |-> [lib EXCEPT !.tags = DictSet(lib.tags, dict_key(name), compile_function.v)],
          ret |-> Returned("function", compile_function.v, None, NoFlags), exc |-> "none"]
    ELSE [lib |-> lib, ret |-> ReturnsNothing, exc |-> "ValueError"]

\* setattr(func, attr, flags[attr]) for the attributes that are in flags
set_flags(attrs, flags) ==
    [a \in FlagNames |-> IF flags[a] # "unset" THEN flags[a] ELSE attrs[a]]

\* the loop of filter() over the three attributes, and _filter_name
with_flags(funcs, filter_func, flags, name) ==
    [f \in DOMAIN funcs |->
        IF f = filter_func
        THEN [funcs[f] EXCEPT !.flags = set_flags(funcs[f].flags, flags), !.filter_name = name]
        ELSE IF f = funcs[filter_func].decorated
        THEN [funcs[f] EXCEPT !.flags = set_flags(funcs[f].flags, flags)]
        ELSE funcs[f]]

RECURSIVE filter(_, _, _, _)

\* Library.filter_function(func, **flags)
filter_function(lib, func, flags) == filter(lib, Str(decorated_name(lib, func)), Fn(func), flags)

\* Library.filter(name, filter_func, **flags)
filter(lib, name, filter_func, flags) ==
    IF name.kind = "None" /\ filter_func.kind = "None"
    THEN [lib |-> lib, ret |-> Returned("filter_function.dec", "", None, flags), exc |-> "none"]
    ELSE IF name.kind # "None" /\ filter_func.kind = "None"
    THEN IF name.kind = "function"
         THEN filter_function(lib, name.v, flags)
         ELSE [lib |-> lib, ret |-> Returned("filter.dec", "", name, flags), exc |-> "none"]
    ELSE IF name.kind # "None" /\ filter_func.kind # "None"
    THEN [lib |-> [lib EXCEPT !.filters = DictSet(lib.filters, dict_key(name), filter_func.v),
                              !.funcs = with_flags(lib.funcs, filter_func.v, flags, dict_key(name))],
          ret |-> Returned("function", filter_func.v, None, NoFlags), exc |-> "none"]
    ELSE [lib |-> lib, ret |-> ReturnsNothing, exc |-> "ValueError"]

\* dec(func): the decorator a call returned, applied to func
decorate(lib, dec, func) ==
    CASE dec.kind = "tag_function" -> tag_function(lib, func)
      [] dec.kind = "tag.dec" -> tag(lib, dec.name, Fn(func))
      [] dec.kind = "filter_function.dec" -> filter_function(lib, func, dec.flags)
      [] dec.kind = "filter.dec" -> filter(lib, dec.name, Fn(func), dec.flags)

-----------------------------------------------------------------------------
(* The Library as a state machine: calls of tag() and filter() in every
   shape, and of the decorators they return *)

MaxCalls == 3

NameArgs == {None, Str("f"), Str("m"), Fn("f"), Fn("w")}
FuncArgs == {None, Fn("f"), Fn("w")}
FlagArgs == {NoFlags, Flags("unset", "True", "unset"), Flags("unset", "False", "True")}

InitLibrary ==
    /\ FlatIdle /\ HeapIdle /\ RunIdle
    /\ lexed = <<>> /\ parsed = <<>> /\ built = <<>> /\ expr = <<>>
    /\ library = [lib |-> Library_init(Functions), ret |-> ReturnsNothing, exc |-> "none",
                  calls |-> 0, call |-> "Library", args |-> <<>>, flags |-> NoFlags]

Called(r, what, args, flags) ==
    /\ library' = [lib |-> r.lib, ret |-> r.ret, exc |-> r.exc, calls |-> library.calls + 1,
                   call |-> what, args |-> args, flags |-> flags]
    /\ UNCHANGED <<lexed, parsed, built, expr>>
    /\ UNCHANGED <<flatvars, heapvars, runvars>>

\* register.tag(name, compile_function)
Tag(name, compile_function) ==
    /\ library.calls < MaxCalls
    /\ Called(tag(library.lib, name, compile_function), "tag", <<name, compile_function>>, NoFlags)

\* register.filter(name, filter_func, **flags)
RegisterFilter(name, filter_func, flags) ==
    /\ library.calls < MaxCalls
    /\ Called(filter(library.lib, name, filter_func, flags), "filter", <<name, filter_func>>, flags)

\* dec(func) for the decorator the last call returned
Decorate(func) ==
    /\ library.calls < MaxCalls
    /\ library.ret.kind \notin {"none", "function"}
    /\ Called(decorate(library.lib, library.ret, func), library.ret.kind, <<Fn(func)>>, library.ret.flags)

NextLibrary ==
    \/ \E name \in NameArgs, compile_function \in FuncArgs : Tag(name, compile_function)
    \/ \E name \in NameArgs, filter_func \in FuncArgs, flags \in FlagArgs :
          RegisterFilter(name, filter_func, flags)
    \/ \E func \in {"f", "w"} : Decorate(func)

SpecLibrary == InitLibrary /\ [][NextLibrary]_vars

-----------------------------------------------------------------------------
(* parse_bits: the arguments of a simple_tag or inclusion_tag use matched
   against the parameters of the wrapped function *)

\* a bit of the tag: a positional argument, or name=value
Positional == [kw |-> FALSE, param |-> ""]
Keyword(param) == [kw |-> TRUE, param |-> param]

\* what getfullargspec(func) gives, with takes_context; defaults is the
\* number of defaults (0 for None), kwonly_defaults the names that have one
ArgSpec(params, varargs, varkw, defaults, kwonly, kwonly_defaults, takes_context) ==
    [params |-> params, varargs |-> varargs, varkw |-> varkw, defaults |-> defaults,
     kwonly |-> kwonly, kwonly_defaults |-> kwonly_defaults, takes_context |-> takes_context]

\* list.remove(x) of a list without duplicates
remove(l, x) == SelectSeq(l, LAMBDA y : y # x)

\* [kwarg for kwarg in kwonly if not kwonly_defaults or kwarg not in kwonly_defaults]
required_kwonly(spec) == SelectSeq(spec.kwonly, LAMBDA k : k \notin spec.kwonly_defaults)

Parsed_bits(args, kwargs, exc, msg) == [args |-> args, kwargs |-> kwargs, exc |-> exc, msg |-> msg]

\* the end of parse_bits: the params left are cut by the number of defaults,
\* and what is left after that is missing
bits_checked(spec, args, kwargs, unhandled_params, unhandled_kwargs) ==
    IF (IF spec.defaults > 0
        THEN SubSeq(unhandled_params, 1, Len(unhandled_params) - spec.defaults)
        ELSE unhandled_params) # <<>> \/ unhandled_kwargs # <<>>
    THEN Parsed_bits(args, kwargs, "TemplateSyntaxError", "did not receive value(s)")
    ELSE Parsed_bits(args, kwargs, "none", "")

\* the loop of parse_bits over the bits from bit i on
RECURSIVE bits_loop(_, _, _, _, _, _, _, _)
\* the loop without the test for a positional bit after a keyword bit
bits_loop_unordered(bits, i, spec, params, args, kwargs, unhandled_params, unhandled_kwargs) ==
    IF i > Len(bits) THEN bits_checked(spec, args, kwargs, unhandled_params, unhandled_kwargs)
    ELSE IF bits[i].kw
    THEN IF (\A j \in 1..Len(params) : params[j] # bits[i].param)
            /\ (\A j \in 1..Len(unhandled_kwargs) : unhandled_kwargs[j] # bits[i].param)
            /\ ~spec.varkw
         THEN Parsed_bits(args, kwargs, "TemplateSyntaxError", "unexpected keyword argument")
         ELSE IF bits[i].param \in kwargs
         THEN Parsed_bits(args, kwargs, "TemplateSyntaxError", "multiple values")
         ELSE bits_loop(bits, i + 1, spec, params, args, kwargs \cup {bits[i].param},
                        remove(unhandled_params, bits[i].param),
                        IF \E j \in 1..Len(unhandled_params) : unhandled_params[j] = bits[i].param
                        THEN unhandled_kwargs ELSE remove(unhandled_kwargs, bits[i].param))
    ELSE IF unhandled_params = <<>> /\ ~spec.varargs
    THEN Parsed_bits(args + 1, kwargs, "TemplateSyntaxError", "too many positional arguments")
    ELSE bits_loop(bits, i + 1, spec, params, args + 1, kwargs,
                   IF unhandled_params = <<>> THEN <<>> ELSE Rest(unhandled_params),
                   unhandled_kwargs)

bits_loop(bits, i, spec, params, args, kwargs, unhandled_params, unhandled_kwargs) ==
    IF i > Len(bits) THEN bits_checked(spec, args, kwargs, unhandled_params, unhandled_kwargs)
    ELSE IF bits[i].kw
    THEN IF (\A j \in 1..Len(params) : params[j] # bits[i].param)
            /\ (\A j \in 1..Len(unhandled_kwargs) : unhandled_kwargs[j] # bits[i].param)
            /\ ~spec.varkw
         THEN Parsed_bits(args, kwargs, "TemplateSyntaxError", "unexpected keyword argument")
         ELSE IF bits[i].param \in kwargs
         THEN Parsed_bits(args, kwargs, "TemplateSyntaxError", "multiple values")
         ELSE bits_loop(bits, i + 1, spec, params, args, kwargs \cup {bits[i].param},
                        remove(unhandled_params, bits[i].param),
                        IF \E j \in 1..Len(unhandled_params) : unhandled_params[j] = bits[i].param
                        THEN unhandled_kwargs ELSE remove(unhandled_kwargs, bits[i].param))
    ELSE IF kwargs # {}
    THEN Parsed_bits(args, kwargs, "TemplateSyntaxError", "positional after keyword")
    ELSE IF unhandled_params = <<>> /\ ~spec.varargs
    THEN Parsed_bits(args + 1, kwargs, "TemplateSyntaxError", "too many positional arguments")
    ELSE bits_loop(bits, i + 1, spec, params, args + 1, kwargs,
                   IF unhandled_params = <<>> THEN <<>> ELSE Rest(unhandled_params),
                   unhandled_kwargs)

\* parse_bits(parser, bits, params, varargs, varkw, defaults, kwonly,
\* kwonly_defaults, takes_context, name); args is the number of positional
\* arguments taken, kwargs the names of the keyword arguments taken
parse_bits_for(bits, spec) ==
    IF spec.takes_context
    THEN IF spec.params = <<>> THEN Parsed_bits(0, {}, "IndexError", "")
         ELSE IF spec.params[1] = "context"
         THEN bits_loop(bits, 1, spec, Rest(spec.params), 0, {}, Rest(spec.params),
                        required_kwonly(spec))
         ELSE Parsed_bits(0, {}, "TemplateSyntaxError", "must have a first argument of 'context'")
    ELSE bits_loop(bits, 1, spec, spec.params, 0, {}, spec.params, required_kwonly(spec))

-----------------------------------------------------------------------------
(* The use of a simple_tag as a state machine: its bits are parsed *)

MaxBits == 3

\* def f(), f(a), f(a, b=1), f(a, *, k), f(a, b=1, *, k, d=2),
\* f(*args, **kwargs), f(context, a) and f(a) with takes_context=True
ArgSpecs ==
    {ArgSpec(<<>>, FALSE, FALSE, 0, <<>>, {}, FALSE),
     ArgSpec(<<"a">>, FALSE, FALSE, 0, <<>>, {}, FALSE),
     ArgSpec(<<"a", "b">>, FALSE, FALSE, 1, <<>>, {}, FALSE),
     ArgSpec(<<"a">>, FALSE, FALSE, 0, <<"k">>, {}, FALSE),
     ArgSpec(<<"a", "b">>, FALSE, FALSE, 1, <<"k", "d">>, {"d"}, FALSE),
     ArgSpec(<<>>, TRUE, TRUE, 0, <<>>, {}, FALSE),
     ArgSpec(<<"context", "a">>, FALSE, FALSE, 0, <<>>, {}, TRUE),
     ArgSpec(<<"a">>, FALSE, FALSE, 0, <<>>, {}, TRUE)}

BitArgs == {Positional, Keyword("a"), Keyword("b"), Keyword("k"), Keyword("z")}

RECURSIVE BitSeqs(_)
BitSeqs(n) ==
    IF n = 0 THEN {<<>>}
    ELSE BitSeqs(n - 1) \cup
         {Append(s, b) : s \in {t \in BitSeqs(n - 1) : Len(t) = n - 1}, b \in BitArgs}

InitTagUse ==
    /\ FlatIdle /\ HeapIdle /\ RunIdle
    /\ lexed = <<>> /\ parsed = <<>> /\ built = <<>> /\ expr = <<>>
    /\ \E spec \in ArgSpecs, bits \in BitSeqs(MaxBits) :
          library = [phase |-> "use", spec |-> spec, bits |-> bits,
                     result |-> Parsed_bits(0, {}, "none", "")]

\* compile_func: args, kwargs = parse_bits(...)
ParseBits ==
    /\ library.phase = "use"
    /\ library' = [library EXCEPT !.phase = "parsed",
                                  !.result = parse_bits_for(library.bits, library.spec)]
    /\ UNCHANGED <<lexed, parsed, built, expr>>
    /\ UNCHANGED <<flatvars, heapvars, runvars>>

NextTagUse == ParseBits

SpecTagUse == InitTagUse /\ [][NextTagUse]_vars

-----------------------------------------------------------------------------
(* The render contexts of a Context and of the Context new() made of it *)

\* the keys written into the render contexts
RenderKeys == {"x", "y"}

\* the step of a call on the render context of Context k with outcome r
OnRenderOf(k, op, r) ==
    /\ heap' = collect(r.heap, [ctxs EXCEPT ![k].render_context.dicts = r.dicts])
    /\ ctxs' = [ctxs EXCEPT ![k].render_context.dicts = r.dicts]
    /\ hlast' = HCall(op, k, "render", r.exc)
    /\ UNCHANGED pstate
    /\ UNCHANGED <<flatvars, runvars, lexvars>>

\* k.render_context[key] = value
NSetItem(k, key, value) ==
    /\ ctxs[k].made
    /\ OnRenderOf(k, "set", obj_setitem(heap, ctxs[k].render_context.dicts, key, value))

\* del k.render_context[key]
NDelItem(k, key) ==
    /\ ctxs[k].made
    /\ OnRenderOf(k, "delete", obj_delitem(heap, ctxs[k].render_context.dicts, key))

\* k.render_context.push()
NPush(k) ==
    /\ ctxs[k].made
    /\ Len(heap) < MaxObjs
    /\ OnRenderOf(k, "push", obj_push(heap, ctxs[k].render_context.dicts, <<>>, EmptyDict))

\* k.render_context.pop()
NPop(k) ==
    /\ ctxs[k].made
    /\ OnRenderOf(k, "pop", obj_pop(heap, ctxs[k].render_context.dicts))

\* c2 = c.new(...) and calls on the render contexts of c and c2
NextNew ==
    \/ \E values \in InitDicts : New(values)
    \/ NewFresh
    \/ \E k \in Names : NSetItem(k, "x", RenderVal)
    \/ \E k \in Names : NDelItem(k, "x")
    \/ \E k \in Names : NPush(k)
    \/ \E k \in Names : NPop(k)

SpecNew == InitHeap /\ [][NextNew]_vars

-----------------------------------------------------------------------------
(* push_state scopes, with what each scope found on entry *)

\* RenderContext.__iter__: the keys of the top frame
RenderContext_iter(ds) == DOMAIN ds[Len(ds)]

\* an open push_state scope: the template and the frame stack it found, the
\* contents of those frames, and the frame it pushed (0 when not isolated)
Scope(isolated, rc, h) ==
    [isolated |-> isolated, initial |-> rc.template, ids |-> rc.dicts,
     seen |-> frames_of(h, rc.dicts), frame |-> IF isolated THEN Len(h) + 1 ELSE 0]

\* no push_state scope is open
NoScopes == [open |-> <<>>]

\* with c.render_context.push_state(template, isolated): entry
EnterLocal(tpl, isolated) ==
    /\ Len(pstate.open) < MaxNest
    /\ Len(heap) < MaxObjs
    /\ heap' = push_state_enter(heap, ctxs.c.render_context, tpl, isolated).heap
    /\ ctxs' = [ctxs EXCEPT !.c.render_context =
                   push_state_enter(heap, ctxs.c.render_context, tpl, isolated).obj]
    /\ pstate' = [pstate EXCEPT !.open = Append(@, Scope(isolated, ctxs.c.render_context, heap))]
    /\ hlast' = HCall("state_enter", "c", "render", "none")
    /\ UNCHANGED <<flatvars, runvars, lexvars>>

\* the innermost scope is left, r being what the exit gave
ScopeLeft(r) ==
    /\ heap' = collect(heap, [ctxs EXCEPT !.c.render_context = r.obj])
    /\ ctxs' = [ctxs EXCEPT !.c.render_context = r.obj]
    /\ pstate' = [open |-> ButLast(pstate.open)]
    /\ hlast' = HCall("state_exit", "c", "render", r.exc)
    /\ UNCHANGED <<flatvars, runvars, lexvars>>

\* the body of the innermost push_state scope has ended
ExitLocal ==
    /\ pstate.open # <<>>
    /\ ScopeLeft(push_state_exit(heap, ctxs.c.render_context,
                                 pstate.open[Len(pstate.open)].initial,
                                 pstate.open[Len(pstate.open)].isolated))

\* c = Context(), no push_state scope open
InitLocal ==
    /\ FlatIdle /\ RunIdle /\ LexIdle
    /\ HeapStart(Context_init(<<Dict1("x", "1")>>, <<>>))
    /\ pstate = NoScopes
    /\ hlast = HCall("init", "c", "user", "none")

\* push_state scopes, and calls on the render context: x is stored outside of
\* the scopes and y in their bodies; the stack is not taken beyond MaxDepth
\* frames
NextLocal ==
    \/ pstate.open = <<>> /\ NSetItem("c", "x", RenderVal)
    \/ pstate.open # <<>> /\ NSetItem("c", "y", RenderVal)
    \/ Len(RC.dicts) < MaxDepth /\ NPush("c")
    \/ NPop("c")
    \/ \E isolated \in BOOLEAN : Len(RC.dicts) < MaxDepth /\ EnterLocal("t1", isolated)
    \/ ExitLocal

SpecLocal == InitLocal /\ [][NextLocal]_vars

-----------------------------------------------------------------------------
(* library.py: InclusionNode.render *)

\* the key of the cache entry of the InclusionNode: the node itself
IncNode == "node"

\* the Template the engine resolves the file name of the node to
Handle == "t"

\* a statement of the sub-template on its context: context['x'] = 2,
\* context.push() or context.pop()
statement(h, ids, op) ==
    IF op = "set" THEN obj_setitem(h, ids, "x", "2")
    ELSE IF op = "push" THEN obj_push(h, ids, <<>>, EmptyDict)
    ELSE obj_pop(h, ids)

\* Template._render of the sub-template: its statements in order, up to the
\* first that raises
RECURSIVE body_rendered(_, _, _)
body_after(r, ops) ==
    IF r.exc # "none" THEN r ELSE body_rendered(r.heap, r.dicts, ops)

body_rendered(h, ids, ops) ==
    IF ops = <<>> THEN [heap |-> h, dicts |-> ids, exc |-> "none"]
    ELSE body_after(statement(h, ids, ops[1]), Rest(ops))

\* Template.render(context) of the sub-template: push_state around _render;
\* the context is bound to the outer template already
Template_render_on(h, context, tpl, ops) ==
    LET entered == push_state_enter(h, context.render_context, tpl, TRUE)
        body == body_rendered(entered.heap, context.dicts, ops)
        left == push_state_exit(body.heap, entered.obj, context.render_context.template, TRUE)
    IN [heap |-> body.heap,
        obj |-> [context EXCEPT !.dicts = body.dicts, !.render_context = left.obj],
        exc |-> IF left.exc # "none" THEN left.exc ELSE body.exc]

\* the heap with no cache entry written
cache_skipped(h, context) == h

\* t = context.render_context.get(self); if t is None: t = the Template of
\* the engine; context.render_context[self] = t
cache_filled(h, context) ==
    IF RenderContext_get(frames_of(h, context.render_context.dicts), IncNode, "null") = "null"
    THEN obj_setitem(h, context.render_context.dicts, IncNode, Handle).heap
    ELSE h

\* csrf_token = context.get('csrf_token'); if csrf_token is not None:
\* new_context['csrf_token'] = csrf_token
csrf_copied(h, context, new_context) ==
    IF get(frames_of(h, context.dicts), "csrf_token", "null") # "null"
    THEN obj_setitem(h, new_context.dicts, "csrf_token",
                     get(frames_of(h, context.dicts), "csrf_token", "null")).heap
    ELSE h

\* InclusionNode.render(context), _dict being the mapping self.func returned
\* and ops the statements of the sub-template
InclusionNode_render(h, context, _dict, ops) ==
    LET t == RenderContext_get(frames_of(h, context.render_context.dicts), IncNode, "null")
        filled == cache_filled(h, context)
        new_context == Context_new(filled, context, <<_dict>>)
        copied == csrf_copied(new_context.heap, context, new_context.obj)
        sub == Template_render_on(copied, new_context.obj,
                               RenderContext_get(frames_of(filled, context.render_context.dicts),
                                                 IncNode, "null"), ops)
    IN [heap |-> sub.heap,
        loaded |-> t = "null",
        t |-> RenderContext_get(frames_of(filled, context.render_context.dicts), IncNode, "null"),
        new_context |-> frames_of(copied, new_context.obj.dicts),
        rendered |-> frames_of(sub.heap, sub.obj.dicts),
        exc |-> sub.exc]

-----------------------------------------------------------------------------
(* Renders of a template with an InclusionNode, on two Contexts *)

\* the renders of the template on one Context
MaxPasses == 1

\* the renders of the InclusionNode in one render of the template
MaxRenders == 2

\* the Contexts: c = Context(d) and o = Context()
Renderers == {"c", "o"}

\* the caller's dict d
CallerDicts ==
    {Dict1("x", "1"), DictSet(Dict1("x", "1"), "csrf_token", "tok"),
     DictSet(Dict1("x", "1"), "csrf_token", "null")}

\* the sub-templates, as the statements they run on their context
Bodies ==
    {<<"set">>, <<"push", "set">>, <<"pop", "set">>, <<"pop", "pop">>}

\* no render of the template is going on
NoPass == [pc |-> "idle", passes |-> 0, renders |-> 0, loads |-> 0]

\* no InclusionNode was rendered
NoInclusion ==
    [op |-> "init", on |-> "c", exc |-> "none", loaded |-> FALSE, t |-> "null",
     _dict |-> 0, returned |-> EmptyDict, ops |-> <<>>, new_context |-> <<>>, rendered |-> <<>>]

\* the frames the two Contexts hold
Held(cx) ==
    {CallerDict} \cup Ids(cx.c.dicts) \cup Ids(cx.c.render_context.dicts)
                 \cup Ids(cx.o.dicts) \cup Ids(cx.o.render_context.dicts)

\* the heap without the dict objects at its end that nothing refers to
RECURSIVE trim(_, _)
trim(h, live) ==
    IF h = <<>> \/ Len(h) \in live THEN h ELSE trim(ButLast(h), live)

\* d = {...}; c = Context(d); o = Context()
InitInclusion ==
    /\ FlatIdle /\ RunIdle /\ LexIdle
    /\ \E d \in CallerDicts :
         /\ heap = Context_init(Context_init(<<d>>, <<CallerDict>>).heap, <<>>).heap
         /\ ctxs = [c |-> Context_init(<<d>>, <<CallerDict>>).obj,
                    o |-> Context_init(Context_init(<<d>>, <<CallerDict>>).heap, <<>>).obj]
    /\ pstate = [k \in Renderers |-> NoPass]
    /\ hlast = NoInclusion

\* Template.render(k): push_state and bind_template are entered
RenderStart(k) ==
    /\ pstate[k].pc = "idle"
    /\ pstate[k].passes < MaxPasses
    /\ heap' = push_state_enter(heap, ctxs[k].render_context, "self", TRUE).heap
    /\ ctxs' = [ctxs EXCEPT ![k].render_context =
                                push_state_enter(heap, ctxs[k].render_context, "self", TRUE).obj,
                            ![k].template = "self"]
    /\ pstate' = [pstate EXCEPT ![k] = [pc |-> "open", passes |-> @.passes + 1,
                                        renders |-> 0, loads |-> 0]]
    /\ hlast' = [NoInclusion EXCEPT !.op = "start", !.on = k]
    /\ UNCHANGED <<flatvars, runvars, lexvars>>

\* the InclusionNode has rendered on the Context k
Included(k, _dict, ops, r) ==
    /\ heap' = trim(r.heap, Held(ctxs))
    /\ ctxs' = ctxs
    /\ pstate' = [pstate EXCEPT ![k].renders = @ + 1,
                                ![k].loads = @ + (IF r.loaded THEN 1 ELSE 0)]
    /\ hlast' = [op |-> "include", on |-> k, exc |-> r.exc, loaded |-> r.loaded, t |-> r.t,
                 _dict |-> _dict, returned |-> r.heap[_dict], ops |-> ops,
                 new_context |-> r.new_context, rendered |-> r.rendered]
    /\ UNCHANGED <<flatvars, runvars, lexvars>>

\* a render of the InclusionNode in the template: the function returns a new
\* dict
IncludeFresh(k, ops) ==
    /\ pstate[k].pc = "open"
    /\ pstate[k].renders < MaxRenders
    /\ Included(k, Len(heap) + 1, ops,
                InclusionNode_render(Append(heap, Dict1("y", "1")), ctxs[k], Len(heap) + 1, ops))

\* a render of the InclusionNode in the template: the function returns the
\* caller's dict
IncludeCallerDict(k, ops) ==
    /\ pstate[k].pc = "open"
    /\ pstate[k].renders < MaxRenders
    /\ Included(k, CallerDict, ops, InclusionNode_render(heap, ctxs[k], CallerDict, ops))

\* Template.render(k): bind_template and push_state are left
RenderEnd(k) ==
    /\ pstate[k].pc = "open"
    /\ heap' = trim(heap, Held([ctxs EXCEPT ![k].render_context =
                    push_state_exit(heap, ctxs[k].render_context, "None", TRUE).obj]))
    /\ ctxs' = [ctxs EXCEPT ![k].render_context =
                                push_state_exit(heap, ctxs[k].render_context, "None", TRUE).obj,
                            ![k].template = "None"]
    /\ pstate' = [pstate EXCEPT ![k].pc = "idle"]
    /\ hlast' = [NoInclusion EXCEPT !.op = "end", !.on = k]
    /\ UNCHANGED <<flatvars, runvars, lexvars>>

NextInclusion ==
    \E k \in Renderers :
        \/ RenderStart(k)
        \/ \E ops \in Bodies : IncludeFresh(k, ops)
        \/ \E ops \in Bodies : IncludeCallerDict(k, ops)
        \/ RenderEnd(k)

SpecInclusion == InitInclusion /\ [][NextInclusion]_vars

-----------------------------------------------------------------------------
(* Template.compile_nodelist on sources with faults, debug on and off *)

MaxCompileSegs == 3

\* text, variables, the simple tag t, the block tag b ... endb, and the
\* faults: an empty variable tag, an argument t does not take, an unknown tag
CompileSegments ==
    {<<"a">>,
     <<"{", "{", " ", "x", " ", "}", "}">>,
     <<"{", "{", " ", "}", "}">>,
     <<"{", "%", " ", "t", " ", "%", "}">>,
     <<"{", "%", " ", "t", " ", "a", " ", "%", "}">>,
     <<"{", "%", " ", "b", " ", "%", "}">>,
     <<"{", "%", " ", "e", "n", "d", "b", " ", "%", "}">>,
     <<"{", "%", " ", "u", " ", "%", "}">>}

CompileSources ==
    {Concat(ss) : ss \in UNION {[1..n -> CompileSegments] : n \in 0..MaxCompileSegs}}

\* nothing was compiled
NotCompiled == [tokens |-> <<>>, nodelist |-> NodeList, exc |-> NoExc, template_debug |-> NoPosition]

\* Template(source, engine=Engine(debug=debug)), before compile_nodelist
InitCompile ==
    /\ FlatIdle /\ HeapIdle /\ RunIdle
    /\ lexed = <<>> /\ PartIdle
    /\ \E source \in CompileSources, debug \in BOOLEAN :
          parsed = [phase |-> "source", source |-> source, debug |-> debug,
                    result |-> NotCompiled]

\* Template.compile_nodelist returns the node list or raises
CompileNodelist ==
    /\ parsed.phase = "source"
    /\ parsed' = [parsed EXCEPT !.phase = "compiled",
                                !.result = compile_nodelist(parsed.source, parsed.debug)]
    /\ UNCHANGED <<lexed, partvars>>
    /\ UNCHANGED <<flatvars, heapvars, runvars>>

NextCompile == CompileNodelist

SpecCompile == InitCompile /\ [][NextCompile]_vars

-----------------------------------------------------------------------------
(* Parser.parse and Parser.skip_past step by step: one turn of a loop at a
   time, the calls of parse and skip_past by compile functions on a stack *)

MaxStepSegs == 3

\* a tag whose compile function calls parser.skip_past('endc')
S_c == <<"c">>

S_endc == <<"e", "n", "d", "c">>

StepSegments ==
    {<<"a">>,
     <<"{", "{", " ", "x", " ", "}", "}">>,
     <<"{", "%", " ", "t", " ", "%", "}">>,
     <<"{", "%", " ", "b", " ", "%", "}">>,
     <<"{", "%", " ", "e", "n", "d", "b", " ", "%", "}">>,
     <<"{", "%", " ", "c", " ", "%", "}">>,
     <<"{", "%", " ", "e", "n", "d", "c", " ", "%", "}">>,
     <<"{", "%", " ", "u", " ", "%", "}">>}

StepSources == {Concat(ss) : ss \in UNION {[1..n -> StepSegments] : n \in 0..MaxStepSegs}}

\* a call of parse(parse_until) that has not returned
ParseCall(parse_until) == [kind |-> "parse", parse_until |-> parse_until, endtag |-> <<>>]

\* a call of skip_past(endtag) that has not returned
SkipCall(endtag) == [kind |-> "skip", parse_until |-> {}, endtag |-> endtag]

\* Parser(tokens).parse() is called
InitSteps ==
    /\ FlatIdle /\ HeapIdle /\ RunIdle
    /\ lexed = <<>> /\ PartIdle
    /\ \E source \in StepSources :
          parsed = [pc |-> "loop", tokens |-> DebugLexer_tokenize(source),
                    calls |-> <<ParseCall({})>>, exc |-> "none", pushed |-> 0]

\* the call that is running
Running == parsed.calls[Len(parsed.calls)]

\* the parser after a step
Stepped(pc, tokens, calls, exc, back) ==
    /\ parsed' = [pc |-> pc, tokens |-> tokens, calls |-> calls, exc |-> exc,
                  pushed |-> parsed.pushed + back]
    /\ UNCHANGED <<lexed, partvars>>
    /\ UNCHANGED <<flatvars, heapvars, runvars>>

\* the step raises
Raised(tokens) == Stepped("done", tokens, parsed.calls, "TemplateSyntaxError", 0)

\* parse: the turn of the loop for a block token, rest being the queue after
\* next_token
ParseBlock(token, rest) ==
    IF split(token.contents) = <<>> THEN Raised(rest)
    ELSE IF split(token.contents)[1] \in Running.parse_until
    THEN Stepped("returned", prepend_token(rest, token), ButLast(parsed.calls), "none", 1)
    ELSE IF split(token.contents)[1] = S_b
    THEN Stepped("loop", rest, Append(parsed.calls, ParseCall({S_endb})), "none", 0)
    ELSE IF split(token.contents)[1] = S_c
    THEN Stepped("loop", rest, Append(parsed.calls, SkipCall(S_endc)), "none", 0)
    ELSE IF split(token.contents)[1] = S_t /\ compile_func(token).exc = "none"
    THEN Stepped("loop", rest, parsed.calls, "none", 0)
    ELSE Raised(rest)

\* parse: one turn of `while self.tokens`
ParseNext ==
    /\ parsed.pc = "loop" /\ Running.kind = "parse"
    /\ parsed.tokens # <<>>
    /\ IF parsed.tokens[1].token_type = "BLOCK"
       THEN ParseBlock(parsed.tokens[1], next_token(parsed.tokens))
       ELSE IF parsed.tokens[1].token_type = "VAR"
               /\ compile_filter(parsed.tokens[1].contents).exc # "none"
       THEN Raised(next_token(parsed.tokens))
       ELSE Stepped("loop", next_token(parsed.tokens), parsed.calls, "none", 0)

\* parse: the queue is empty; the call returns the node list, or raises for
\* the terminator that is missing (unclosed_block_tag)
ParseEnd ==
    /\ parsed.pc = "loop" /\ Running.kind = "parse"
    /\ parsed.tokens = <<>>
    /\ IF Running.parse_until = {}
       THEN Stepped("done", parsed.tokens, ButLast(parsed.calls), "none", 0)
       ELSE Raised(parsed.tokens)

\* the compile function of the block tag after parse(('endb',)) returned:
\* parser.delete_first_token(), and the node is returned to parse
BlockCompiled ==
    /\ parsed.pc = "returned"
    /\ Stepped("loop", delete_first_token(parsed.tokens), parsed.calls, "none", 0)

\* skip_past: one turn of `while self.tokens`
SkipNext ==
    /\ parsed.pc = "loop" /\ Running.kind = "skip"
    /\ parsed.tokens # <<>>
    /\ IF parsed.tokens[1].token_type = "BLOCK" /\ parsed.tokens[1].contents = Running.endtag
       THEN Stepped("loop", next_token(parsed.tokens), ButLast(parsed.calls), "none", 0)
       ELSE Stepped("loop", next_token(parsed.tokens), parsed.calls, "none", 0)

\* skip_past: the queue is empty, unclosed_block_tag raises
SkipEnd ==
    /\ parsed.pc = "loop" /\ Running.kind = "skip"
    /\ parsed.tokens = <<>>
    /\ Raised(parsed.tokens)

NextSteps == ParseNext \/ ParseEnd \/ BlockCompiled \/ SkipNext \/ SkipEnd

SpecSteps == InitSteps /\ [][NextSteps]_vars

\* the parser runs on: a step that can be taken is taken
FairSteps == SpecSteps /\ WF_vars(NextSteps)

-----------------------------------------------------------------------------
(* Claims about the Context *)

\* the indices of the frames of ds that hold key
Holders(ds, key) == {i \in 1..Len(ds) : key \in DOMAIN ds[i]}

\* the most recently pushed of them
Newest(ds, key) == CHOOSE i \in Holders(ds, key) : \A j \in Holders(ds, key) : j <= i

\* what a lookup of key sees: <<bound, value>>
Seen(ds, key) == <<contains(ds, key), get(ds, key, "null")>>

\* C3: after any sequence of push, pop, set, delete and set_upward, get(key)
\* and context[key] return the value key has in the most recently pushed frame
\* that holds it, `key in context` is true exactly when some frame holds key,
\* and a pop makes the bindings of the frames below the popped one visible
\* again
C3_LookupNewestFrame ==
    /\ [](\A k \in Keys :
            /\ contains(dicts, k) <=> Holders(dicts, k) # {}
            /\ Holders(dicts, k) # {} =>
                 /\ get(dicts, k, "null") = dicts[Newest(dicts, k)][k]
                 /\ getitem(dicts, k) = [ret |-> dicts[Newest(dicts, k)][k], exc |-> "none"]
            /\ Holders(dicts, k) = {} =>
                 /\ get(dicts, k, "null") = "null"
                 /\ getitem(dicts, k).exc = "KeyError")
    /\ [][(last'.op = "pop" /\ last'.exc = "none") =>
            \A k \in Keys :
                LET below == Holders(dicts, k) \ {Len(dicts)}
                IN /\ contains(dicts', k) <=> below # {}
                   /\ below # {} =>
                        get(dicts', k, "null") =
                            dicts[CHOOSE i \in below : \A j \in below : j <= i][k]]_vars

\* C3 witness: x is bound in two frames to different values and the top frame
\* that shadowed them has just been popped
C3_Witness ==
    /\ last.op = "pop" /\ last.exc = "none"
    /\ Cardinality(Holders(dicts, "x")) >= 2
    /\ \E i \in Holders(dicts, "x") : dicts[i]["x"] # get(dicts, "x", "null")

\* C4: pop() on a stack that holds only the builtins frame raises
\* ContextPopException and leaves the stack as it was, and the stack never
\* holds fewer than one frame
C4_PopKeepsBuiltinsFrame ==
    /\ [](Len(dicts) >= 1)
    /\ [][(last'.op = "pop" /\ Len(dicts) = 1) =>
            (last'.exc = "ContextPopException" /\ dicts' = dicts)]_vars
    /\ [][(last'.op = "pop" /\ Len(dicts) > 1) =>
            (last'.exc = "none" /\ dicts' = ButLast(dicts))]_vars

\* C4 witness: a pop has just been refused on the one-frame stack
C4_Witness ==
    last.op = "pop" /\ last.exc = "ContextPopException" /\ Len(dicts) = 1

Scenario(n) == SubSeq(ScenarioC5, 1, n)

\* C5 as stated: on a fresh Context, after push({x:1}) and push({x:2}) get(x)
\* is 2, after one pop() it is 1, and the second pop() raises
C5_SecondPopRaises ==
    /\ script = Scenario(3) => get(dicts, "x", "null") = "2"
    /\ script = Scenario(4) => get(dicts, "x", "null") = "1"
    /\ script = Scenario(5) => last.exc # "none"

\* C5 as amended: get(x) is 2, then 1 after one pop(); the second pop()
\* returns and leaves the stack as constructed; the third pop(), made on the
\* builtins frame alone, raises ContextPopException and removes nothing
C5_ThirdPopRaises ==
    /\ script = Scenario(3) => get(dicts, "x", "null") = "2"
    /\ script = Scenario(4) => get(dicts, "x", "null") = "1"
    /\ script = Scenario(5) =>
         (last.exc = "none" /\ dicts = <<builtins>> /\ ~contains(dicts, "x"))
    /\ script = Scenario(6) =>
         (last.exc = "ContextPopException" /\ dicts = <<builtins>>)

\* C5 witness: the whole scenario has run
C5_Witness == script = ScenarioC5 /\ last.op = "pop"

\* C6 as stated: when the body of `with context.push(...)` leaves the stack
\* at the depth it found it, after the exit the stack is the sequence of
\* frames that existed before the push
C6_ExitRestoresStack ==
    (last.op = "with_exit" /\ scope.left = scope.entry + 1) =>
        (Len(dicts) = scope.entry /\ scope.kept = scope.entry)

\* C6 as amended: when the body leaves the stack at the depth it found it
\* and has never popped the frame the push added, the release pops that
\* frame and no other: the stack is the sequence of frames that existed
\* before the push, whether the body returned or raised
C6_ExitRestoresUntouchedStack ==
    (last.op = "with_exit" /\ scope.left = scope.entry + 1 /\ scope.own) =>
        (Len(dicts) = scope.entry /\ scope.kept = scope.entry
         /\ last.exc \in {"none", "BodyError"})

\* C6 witness: a block whose body pushed and popped, and raised, has been left
\* with the frame of its push still in place
C6_Witness ==
    /\ last.op = "with_exit" /\ last.exc = "BodyError"
    /\ scope.own /\ scope.left = scope.entry + 1 /\ scope.entry >= 2

\* the keys the arguments of a push bind
RECURSIVE BoundKeys(_)
BoundKeys(frames) ==
    IF frames = <<>> THEN {} ELSE (DOMAIN Head(frames)) \cup BoundKeys(Tail(frames))

\* C7: push(m1, ..., mn) with n >= 1 mappings or Contexts succeeds for every
\* n and makes every key the arguments bind visible to lookup
C7_PushAnyNumberOfMappings ==
    [][\A c \in PushCalls :
          (Len(c[1]) >= 1 /\ Push(c[1], c[2])) =>
              /\ last'.exc = "none"
              /\ \A k \in BoundKeys(push_collect(c[1])) : contains(dicts', k)]_vars

\* C8: in every reachable state frame 0 holds True -> true, False -> false,
\* None -> null
C8_BuiltinsFrameFixed ==
    \A k \in DOMAIN builtins : k \in DOMAIN dicts[1] /\ dicts[1][k] = builtins[k]

\* C9: set(key, value) binds key to value in the top frame and changes no
\* frame below it, so what a lookup sees once the top frame is popped is what
\* it saw there before the set
C9_SetWritesTopFrameOnly ==
    [][last'.op = "set" =>
          /\ Len(dicts') = Len(dicts)
          /\ \A i \in 1..(Len(dicts) - 1) : dicts'[i] = dicts[i]
          /\ dicts'[Len(dicts)] = DictSet(dicts[Len(dicts)], last'.key, last'.val)
          /\ Len(dicts) > 1 =>
               \A k \in Keys : Seen(pop(dicts').dicts, k) = Seen(pop(dicts).dicts, k)]_vars

\* C9 witness: a set has bound in the top frame a key that a frame below
\* binds to another value
C9_Witness ==
    /\ last.op = "set"
    /\ \E i \in 1..(Len(dicts) - 1) :
          last.key \in DOMAIN dicts[i] /\ dicts[i][last.key] # last.val

\* C10: set_upward(key, value) overwrites key in the frame a lookup of key
\* reads from, the newest one holding key, or binds it in the top frame when
\* no frame holds it; every other binding of every frame and the number of
\* frames is unchanged, the frames holding key are the same (plus the top one
\* in the second case), and get(key) then returns value
C10_SetUpwardOverwritesNewestHolder ==
    [][last'.op = "set_upward" =>
          LET k == last'.key
              H == Holders(dicts, k)
              t == IF H = {} THEN Len(dicts) ELSE Newest(dicts, k)
          IN /\ Len(dicts') = Len(dicts)
             /\ \A i \in 1..Len(dicts) :
                   /\ i # t => dicts'[i] = dicts[i]
                   /\ i = t => dicts'[i] = DictSet(dicts[i], k, last'.val)
             /\ Holders(dicts', k) = (IF H = {} THEN {Len(dicts)} ELSE H)
             /\ get(dicts', k, "null") = last'.val
             /\ last'.exc = "none"]_vars

\* C10 witness: set_upward has overwritten a key that the top frame does not
\* hold and two frames below it do
C10_Witness ==
    /\ last.op = "set_upward"
    /\ last.key \notin DOMAIN dicts[Len(dicts)]
    /\ Cardinality(Holders(dicts, last.key)) >= 2
    /\ \E i \in Holders(dicts, last.key) : dicts[i][last.key] # last.val

-----------------------------------------------------------------------------
(* Claims about compiling and rendering a Template *)

\* the source holds "{" and open, and later close and "}"
DelimiterPair(s, open, close) ==
    \E i \in 1..(Len(s) - 3) : \E j \in (i + 2)..(Len(s) - 1) :
        s[i] = "{" /\ s[i + 1] = open /\ s[j] = close /\ s[j + 1] = "}"

\* the source holds no block, variable or comment delimiter pair
NoTag(s) ==
    ~DelimiterPair(s, "%", "%") /\ ~DelimiterPair(s, "{", "}") /\ ~DelimiterPair(s, "#", "#")

\* C1: a source with no block, variable or comment delimiter pair compiles,
\* and rendering it against any context returns the source character for
\* character; the empty source renders as the empty string.
C1_PureTextRendersAsItself ==
    NoTag(template.source) =>
        /\ template.phase # "failed"
        /\ rendered.done => rendered.output = template.source
        /\ (rendered.done /\ template.source = <<>>) => rendered.output = <<>>

\* the text "<", a newline and a lone "{{" rendered with autoescape on
C1_Witness ==
    /\ rendered.done
    /\ rendered.autoescape
    /\ NoTag(template.source)
    /\ template.source = <<"<", "\n", "{", "{">>

\* the tokens that make a node: all but the comments, in token order
NodeTokens(tokens) == SelectSeq(tokens, LAMBDA t : t.token_type # "COMMENT")

\* the kind of node a token makes
KindOf(token_type) ==
    CASE token_type = "TEXT" -> "TextNode"
      [] token_type = "VAR" -> "VariableNode"
      [] token_type = "BLOCK" -> "SimpleNode"

\* node i was made from the i-th of the tokens that make a node
NodesFollowTokens(nodes, made) ==
    /\ Len(nodes) = Len(made)
    /\ \A i \in 1..Len(nodes) :
          /\ nodes[i].token = made[i]
          /\ nodes[i].kind = KindOf(made[i].token_type)

S_t_as_x == <<"t", " ", "a", "s", " ", "x">>

\* a `t as x` tag stands before token k
Assigned(tokens, k) ==
    \E j \in 1..(k - 1) : tokens[j].token_type = "BLOCK" /\ tokens[j].contents = S_t_as_x

\* what a value of the context shows as
ValueText(value, autoescape) ==
    IF value = "<" /\ autoescape THEN <<"&", "l", "t", ";">> ELSE <<value>>

\* what {{ name }} shows when the render starts on the stack `before`
Lookup(name, before, autoescape, string_if_invalid) ==
    IF name # <<"x">> \/ \A i \in 1..Len(before) : "x" \notin DOMAIN before[i]
    THEN string_if_invalid
    ELSE ValueText(before[CHOOSE i \in 1..Len(before) :
                              /\ "x" \in DOMAIN before[i]
                              /\ \A h \in (i + 1)..Len(before) : "x" \notin DOMAIN before[h]]["x"],
                   autoescape)

\* the fragment token k stands for
Fragment(tokens, k, before, autoescape, string_if_invalid) ==
    CASE tokens[k].token_type = "TEXT" -> tokens[k].contents
      [] tokens[k].token_type = "COMMENT" -> <<>>
      [] tokens[k].token_type = "VAR" ->
            IF tokens[k].contents = <<"x">> /\ Assigned(tokens, k) THEN <<"T">>
            ELSE Lookup(tokens[k].contents, before, autoescape, string_if_invalid)
      [] tokens[k].token_type = "BLOCK" ->
            IF tokens[k].contents = S_t_as_x THEN <<>> ELSE <<"T">>

\* the fragments of the tokens from k on, joined in token order
RECURSIVE Fragments(_, _, _, _, _)
Fragments(tokens, k, before, autoescape, string_if_invalid) ==
    IF k > Len(tokens) THEN <<>>
    ELSE Fragment(tokens, k, before, autoescape, string_if_invalid)
             \o Fragments(tokens, k + 1, before, autoescape, string_if_invalid)

\* C2: the nodes of a compiled template are one per text, variable and block
\* token, in the order of the tokens, comments making no node; the output of
\* a render is the fragments of the tokens joined in that order, a comment's
\* fragment being empty.
C2_OutputIsFragmentsInTokenOrder ==
    /\ template.phase = "compiled" =>
            NodesFollowTokens(template.nodelist.nodes, NodeTokens(template.tokens))
    /\ rendered.done =>
            rendered.output = Fragments(template.tokens, 1, rendered.before,
                                        rendered.autoescape,
                                        template.engine.string_if_invalid)

\* a tag that assigns x, a comment, and the variable x, rendered in that order
C2_Witness ==
    /\ rendered.done
    /\ Len(template.tokens) = 3
    /\ template.tokens[1].contents = S_t_as_x
    /\ template.tokens[2].token_type = "COMMENT"
    /\ template.tokens[3].token_type = "VAR"
    /\ rendered.before = <<builtins, Dict1("x", "<")>>
    /\ rendered.output = <<"T">>

-----------------------------------------------------------------------------
(* Claims about Contexts that may share frames *)

\* the frames c and c2 have in common
SharedFrames == Ids(ctxs.c.dicts) \cap Ids(ctxs.c2.dicts)

\* the other Context
Other(k) == IF k = "c" THEN "c2" ELSE "c"

\* the last step was a call on the user variables of c or c2 after c2 was made
UserStep ==
    /\ ctxs.c2.made
    /\ hlast'.part = "user"
    /\ hlast'.op \in {"set", "set_upward", "delete", "push", "pop"}

\* the stack new returned: a builtins frame, then values if given
NewStack ==
    hlast.op = "new" =>
        /\ ctxs.c2.dicts = <<ctxs.c2.dicts[1]>> \o hlast.values
        /\ heap[ctxs.c2.dicts[1]] = builtins

\* C11 as stated: c.new(values) returns a Context with the stack
\* [builtins, values] that shares no frame with c; a call on one of the two
\* Contexts leaves every frame of the other unchanged.
C11_NewSharesNoFrame ==
    /\ [](NewStack /\ SharedFrames = {})
    /\ [][UserStep =>
            /\ ctxs'[Other(hlast'.on)] = ctxs[Other(hlast'.on)]
            /\ frames_of(heap', ctxs[Other(hlast'.on)].dicts)
                 = frames_of(heap, ctxs[Other(hlast'.on)].dicts)]_vars

\* C11 amended: the stack is [builtins, values] with a new builtins frame and
\* values itself, not a copy of it; c2 shares no frame with c but values when
\* values is a frame of c; a call on one of the two Contexts leaves every
\* frame of the other unchanged, but that one.
C11_NewSharesOnlyGivenFrame ==
    /\ [](NewStack /\ SharedFrames \subseteq {CallerDict})
    /\ [][UserStep =>
            /\ ctxs'[Other(hlast'.on)] = ctxs[Other(hlast'.on)]
            /\ \A id \in Ids(ctxs[Other(hlast'.on)].dicts) \ SharedFrames :
                   heap'[id] = heap[id]]_vars

\* c = Context(d); c2 = c.new(d); c2['x'] = 2 has changed the frame d of c
C11_Witness ==
    /\ ctxs.c2.made
    /\ hlast.op = "set" /\ hlast.on = "c2"
    /\ SharedFrames = {CallerDict}
    /\ heap[CallerDict]["x"] = "2"
    /\ Len(ctxs.c.dicts) = 3

\* the user variables of c, and the frames of its render context
UserFrames == frames_of(heap, ctxs.c.dicts)

RenderFrames == frames_of(heap, ctxs.c.render_context.dicts)

\* what the lookups on the user variables answer for key
UserView(h, c, key) ==
    [getitem |-> getitem(frames_of(h, c.dicts), key),
     contains |-> contains(frames_of(h, c.dicts), key),
     get |-> get(frames_of(h, c.dicts), key, "null")]

\* what the lookups on the render context answer for key
RenderView(h, c, key) ==
    [getitem |-> RenderContext_getitem(frames_of(h, c.render_context.dicts), key),
     contains |-> RenderContext_contains(frames_of(h, c.render_context.dicts), key),
     get |-> RenderContext_get(frames_of(h, c.render_context.dicts), key, "null")]

\* C12: the user variables and the render context of a Context have no frame
\* in common; a value stored in the render context is never returned by a
\* lookup on the user variables, nor a value of the user variables by the
\* render context; a call on the one changes no answer of getitem, contains
\* and get on the other.
C12_UserAndRenderStacksDisjoint ==
    /\ [](/\ Ids(ctxs.c.dicts) \cap Ids(ctxs.c.render_context.dicts) = {}
          /\ UserView(heap, ctxs.c, "x").get # RenderVal
          /\ RenderView(heap, ctxs.c, "x").get \in {RenderVal, "null"})
    /\ [][/\ (hlast'.part = "render" =>
                  UserView(heap', ctxs'.c, "x") = UserView(heap, ctxs.c, "x"))
           /\ (hlast'.part = "user" =>
                  RenderView(heap', ctxs'.c, "x") = RenderView(heap, ctxs.c, "x"))]_vars

\* x is 2 in the user variables and r in the render context, both written by
\* calls, the last one on the render context
C12_Witness ==
    /\ hlast.op = "set" /\ hlast.part = "render"
    /\ UserView(heap, ctxs.c, "x").getitem.ret = "2"
    /\ RenderView(heap, ctxs.c, "x").getitem.ret = RenderVal
    /\ Len(ctxs.c.dicts) = 1
    /\ Len(ctxs.c.render_context.dicts) = 1

\* the render context of c

\* a push_state block was entered in this step
EnterStep == hlast'.op = "state_enter"

\* a push_state block was left in this step
ExitStep == hlast'.op = "state_exit"

\* the block entered or left in this step
Entering == pstate'.open[Len(pstate'.open)]

Leaving == pstate'.closed

\* what entering does: with isolated a new empty frame on top, without it
\* the stack as it was
EntryEffect ==
    EnterStep =>
        IF Entering.isolated
        THEN /\ Len(ctxs'.c.render_context.dicts) = Len(RC.dicts) + 1
             /\ ButLast(ctxs'.c.render_context.dicts) = RC.dicts
             /\ ctxs'.c.render_context.dicts[Len(RC.dicts) + 1] \notin 1..Len(heap)
             /\ frames_of(heap', ctxs'.c.render_context.dicts)[Len(RC.dicts) + 1] = EmptyDict
        ELSE ctxs'.c.render_context.dicts = RC.dicts

\* C13 as stated: on the exit of every push_state block, whether its body
\* returned or raised, the template recorded is the one recorded before
\* entry and the stack is as deep as before entry; with isolated the body
\* starts on a new empty top frame, without it no frame is pushed or popped.
C13_ExitRestoresTemplateAndDepth ==
    [][/\ EntryEffect
       /\ ExitStep =>
              /\ ctxs'.c.render_context.template = Leaving.initial
              /\ Len(ctxs'.c.render_context.dicts) = Leaving.entry
              /\ (~Leaving.isolated => ctxs'.c.render_context.dicts = RC.dicts)]_vars

\* C13 amended: the template is put back on every exit; with isolated the
\* exit pops one frame, whichever is on top, so the stack has the depth of
\* entry when the body left it as deep as it found it, and the exit raises
\* ContextPopException when the body popped down to the builtins frame;
\* without isolated no frame is pushed or popped.
C13_ExitRestoresTemplatePopsOne ==
    [][/\ EntryEffect
       /\ ExitStep =>
              /\ ctxs'.c.render_context.template = Leaving.initial
              /\ (Leaving.isolated /\ Len(RC.dicts) > 1 =>
                     /\ ctxs'.c.render_context.dicts = ButLast(RC.dicts)
                     /\ hlast'.exc \in {"none", "BodyError"})
              /\ (Leaving.isolated /\ Len(RC.dicts) = 1 =>
                     /\ ctxs'.c.render_context.dicts = RC.dicts
                     /\ hlast'.exc = "ContextPopException")
              /\ (Leaving.isolated /\ Len(RC.dicts) = Leaving.entry + 1 =>
                     Len(ctxs'.c.render_context.dicts) = Leaving.entry)
              /\ (~Leaving.isolated =>
                     /\ ctxs'.c.render_context.dicts = RC.dicts
                     /\ hlast'.exc \in {"none", "BodyError"})]_vars

\* an isolated block nested in another one was left after its body raised,
\* the stack as deep as at its entry and the template of the outer block back
C13_Witness ==
    /\ hlast.op = "state_exit" /\ hlast.exc = "BodyError"
    /\ pstate.closed.isolated
    /\ pstate.closed.initial = "t1"
    /\ RC.template = "t1"
    /\ Len(pstate.open) = 1
    /\ Len(RC.dicts) = pstate.closed.entry
    /\ pstate.closed.entry = 2

\* the render of thread t run alone on the Context it started with
Alone(t) ==
    NodeList_render(template.nodelist.nodes, threads[t].context0, TRUE,
                    template.engine.string_if_invalid)

\* C14: whatever the interleaving of two renders of one compiled Template,
\* each with a Context of its own binding x to a different value, the output
\* of each render is the output of that render run alone and holds no value
\* of the other Context; no step of a render changes the Template.
C14_ConcurrentRendersIsolated ==
    /\ [](\A t \in Threads :
            threads[t].pc = "done" =>
                /\ threads[t].output = Alone(t).output
                /\ threads[t].dicts = Alone(t).dicts
                /\ \A i \in 1..Len(threads[t].output) :
                       threads[t].output[i] # ThreadVal(3 - t))
    /\ [][template' = template]_vars

\* the second thread has rendered the whole Template, showing its own x
\* twice, while the first thread is between its first and its second node
C14_Witness ==
    /\ threads[2].pc = "done"
    /\ threads[2].output = <<"2", "T", "2">>
    /\ threads[1].pc = "nodes"
    /\ threads[1].i = 2
    /\ threads[1].bits = << <<"1">> >>

-----------------------------------------------------------------------------
(* Claims about the lexers *)

\* the part of the source a token of the tracking lexer stands for
SpanOf(src, token) == SubSeq(src, token.position.start + 1, token.position.end)

\* s holds, from i to j + 1, an opening delimiter, no newline, and the
\* closing delimiter of the same kind
TagAt(s, i, j) ==
    /\ 1 <= i /\ i + 2 <= j /\ j + 1 <= Len(s)
    /\ s[i] = "{" /\ s[j + 1] = "}"
    /\ \/ s[i + 1] = "%" /\ s[j] = "%"
       \/ s[i + 1] = "{" /\ s[j] = "}"
       \/ s[i + 1] = "#" /\ s[j] = "#"
    /\ \A m \in (i + 2)..(j - 1) : s[m] # "\n"

\* s is one tag: it ends at the first closing delimiter after its opening one
IsTag(s) ==
    /\ TagAt(s, 1, Len(s) - 1)
    /\ \A j \in 1..(Len(s) - 2) : ~TagAt(s, 1, j)

\* the kind of token a tag makes outside a verbatim block
KindOfTag(s) ==
    CASE s[2] = "%" -> "BLOCK" [] s[2] = "{" -> "VAR" [] s[2] = "#" -> "COMMENT"

\* the content of a block token opens a verbatim block
OpensVerbatim(content) ==
    \/ content = S_verbatim
    \/ /\ Len(content) > Len(S_verbatim) + 1
       /\ SubSeq(content, 1, Len(S_verbatim) + 1) = S_verbatim \o <<" ">>

\* the tokens from k on are what the pieces of the source make, closing being
\* the content of the tag that closes the open verbatim block, <<>> outside
RECURSIVE VerbatimFollowed(_, _, _, _, _)
VerbatimFollowed(src, spans, tokens, k, closing) ==
    IF k > Len(tokens) THEN TRUE
    ELSE IF closing # <<>> THEN
        IF IsTag(SpanOf(src, spans[k])) /\ SpanOf(src, spans[k])[2] = "%"
              /\ strip(inner(SpanOf(src, spans[k]))) = closing
        THEN /\ tokens[k].token_type = "BLOCK"
             /\ tokens[k].contents = closing
             /\ VerbatimFollowed(src, spans, tokens, k + 1, <<>>)
        ELSE /\ tokens[k].token_type = "TEXT"
             /\ tokens[k].contents = SpanOf(src, spans[k])
             /\ VerbatimFollowed(src, spans, tokens, k + 1, closing)
    ELSE /\ tokens[k].token_type =
               IF IsTag(SpanOf(src, spans[k])) THEN KindOfTag(SpanOf(src, spans[k])) ELSE "TEXT"
         /\ VerbatimFollowed(src, spans, tokens, k + 1,
                IF tokens[k].token_type = "BLOCK" /\ OpensVerbatim(tokens[k].contents)
                THEN <<"e", "n", "d">> \o tokens[k].contents ELSE <<>>)

\* C15: after a block token that opens a verbatim block, each following piece
\* of the source, tags included, is a Text token with the piece as content,
\* up to the first block tag whose trimmed content is "end" and the content
\* of the opening tag; that tag is a Block token, and after it tags make
\* their own kinds of token again.  Both lexers.
C15_VerbatimPassesThrough ==
    lexed.done =>
        /\ Len(lexed.fast) = Len(lexed.tracking)
        /\ VerbatimFollowed(lexed.source, lexed.tracking, lexed.tracking, 1, <<>>)
        /\ VerbatimFollowed(lexed.source, lexed.tracking, lexed.fast, 1, <<>>)

\* a block named b is opened, an endverbatim tag without the name passes
\* through as text, the tag naming b closes the block, a variable follows
C15_Witness ==
    /\ lexed.done
    /\ Len(lexed.fast) = 4
    /\ lexed.fast[1].contents = S_verbatim \o <<" ", "b">>
    /\ lexed.fast[2].token_type = "TEXT"
    /\ lexed.fast[2].contents = BLOCK_TAG_START \o <<"e", "n", "d">> \o S_verbatim \o <<"%", "}">>
    /\ lexed.fast[3].token_type = "BLOCK"
    /\ lexed.fast[4].token_type = "VAR"

\* a tag starts at i
TagStartsAt(s, i) ==
    /\ i + 3 <= Len(s)
    /\ s[i] = "{"
    /\ \E j \in (i + 2)..(Len(s) - 1) : TagAt(s, i, j)

\* the index of the last character but one of the shortest tag that starts at i
ShortestTag(s, i) ==
    CHOOSE j \in (i + 2)..(Len(s) - 1) :
        TagAt(s, i, j) /\ \A m \in (i + 2)..(j - 1) : ~TagAt(s, i, m)

\* the pieces of s, in source order: each leftmost shortest tag and each
\* non-empty stretch of text between tags, as spans of s; the scan is at pos
\* and the text not yet made a piece starts at from
RECURSIVE Pieces(_, _, _)
Pieces(s, pos, from) ==
    IF pos > Len(s)
    THEN IF from < pos THEN <<[start |-> from - 1, end |-> Len(s)]>> ELSE <<>>
    ELSE IF TagStartsAt(s, pos)
    THEN (IF from < pos THEN <<[start |-> from - 1, end |-> pos - 1]>> ELSE <<>>)
         \o <<[start |-> pos - 1, end |-> ShortestTag(s, pos) + 1]>>
         \o Pieces(s, ShortestTag(s, pos) + 2, ShortestTag(s, pos) + 2)
    ELSE Pieces(s, pos + 1, from)

\* the content of a token is its piece, whole for a Text token, without the
\* delimiters and the whitespace around for the other kinds
ContentOfPiece(token, piece) ==
    IF token.token_type = "TEXT" THEN token.contents = piece
    ELSE /\ IsTag(piece)
         /\ token.token_type = KindOfTag(piece)
         /\ \E a \in 3..(Len(piece) - 1) : \E b \in 2..(Len(piece) - 2) :
               /\ token.contents = SubSeq(piece, a, b)
               /\ \A m \in (3..(a - 1)) \cup ((b + 1)..(Len(piece) - 2)) : isspace(piece[m])
               /\ a <= b => ~isspace(piece[a]) /\ ~isspace(piece[b])

\* the positions of the tokens are contiguous, from 0 to n
Contiguous(tokens, n) ==
    /\ tokens = <<>> => n = 0
    /\ tokens # <<>> => tokens[1].position.start = 0 /\ tokens[Len(tokens)].position.end = n
    /\ \A k \in 1..Len(tokens) : tokens[k].position.start < tokens[k].position.end
    /\ \A k \in 1..(Len(tokens) - 1) : tokens[k].position.end = tokens[k + 1].position.start

\* the tokens of both lexers are made of the pieces, one by one
PartitionedBy(pieces) ==
    /\ Len(lexed.tracking) = Len(pieces)
    /\ Len(lexed.fast) = Len(pieces)
    /\ \A k \in 1..Len(pieces) :
          /\ lexed.tracking[k].position = pieces[k]
          /\ ContentOfPiece(lexed.tracking[k], SubSeq(lexed.source, pieces[k].start + 1, pieces[k].end))
          /\ ContentOfPiece(lexed.fast[k], SubSeq(lexed.source, pieces[k].start + 1, pieces[k].end))
    /\ Contiguous(lexed.tracking, Len(lexed.source))
    /\ Concat([k \in 1..Len(lexed.tracking) |-> SpanOf(lexed.source, lexed.tracking[k])])
          = lexed.source

\* C16: the tokens partition the source: each leftmost shortest tag and each
\* non-empty stretch of text between tags makes exactly one token, in source
\* order, whose content is that piece (trimmed of delimiters and whitespace
\* for a tag); the positions of the tracking lexer are the spans of the
\* pieces, contiguous from 0 to the length of the source.
C16_TokensPartitionSource ==
    lexed.done => PartitionedBy(Pieces(lexed.source, 1, 1))

\* text, a variable tag that starts at a doubled delimiter, a comment: three
\* tokens
C16_Witness ==
    /\ lexed.done
    /\ lexed.source = <<"a", "{", "{">> \o VARIABLE_TAG_START \o <<" ", "x", " ", "}", "}">>
                          \o COMMENT_TAG_START \o <<" ", "a", " ", "#", "}">>
    /\ Len(lexed.fast) = 3
    /\ lexed.tracking[1].position = [start |-> 0, end |-> 1]
    /\ lexed.tracking[2].position = [start |-> 1, end |-> 10]
    /\ lexed.fast[2].contents = <<"{", "{", " ", "x">>
    /\ lexed.tracking[3].position = [start |-> 10, end |-> 17]

\* the number of newline characters among the first n characters of s
NewlinesBefore(s, n) == Cardinality({m \in 1..n : s[m] = "\n"})

\* C17: the line number of each token of either lexer is 1 plus the number of
\* newline characters of the source before the first character of the token
\* (the start of the token of the plain lexer is that of the token of the
\* tracking lexer at the same index).
C17_LinenoCountsNewlinesBefore ==
    lexed.done =>
        /\ Len(lexed.fast) = Len(lexed.tracking)
        /\ \A k \in 1..Len(lexed.tracking) :
              /\ lexed.tracking[k].lineno
                     = 1 + NewlinesBefore(lexed.source, lexed.tracking[k].position.start)
              /\ lexed.fast[k].lineno
                     = 1 + NewlinesBefore(lexed.source, lexed.tracking[k].position.start)

\* a text token of two lines, then a tag on line 3: the newlines of the text
\* count for the tag only
C17_Witness ==
    /\ lexed.done
    /\ Len(lexed.fast) = 2
    /\ lexed.fast[1].token_type = "TEXT"
    /\ lexed.fast[1].contents = <<"\n", "a", "\n">>
    /\ lexed.fast[1].lineno = 1
    /\ lexed.fast[2].token_type = "VAR"
    /\ lexed.fast[2].lineno = 3
    /\ lexed.tracking[2].lineno = 3

\* C18: the plain lexer and the tracking lexer make as many tokens, which
\* agree one by one on kind, content and line number; only the tracking
\* lexer records a position.
C18_LexersAgree ==
    lexed.done =>
        /\ Len(lexed.fast) = Len(lexed.tracking)
        /\ \A k \in 1..Len(lexed.tracking) :
              /\ lexed.fast[k].token_type = lexed.tracking[k].token_type
              /\ lexed.fast[k].contents = lexed.tracking[k].contents
              /\ lexed.fast[k].lineno = lexed.tracking[k].lineno
              /\ lexed.fast[k].position = NoPosition
              /\ lexed.tracking[k].position # NoPosition

\* a comment on line 2, a verbatim block holding an unterminated delimiter
C18_Witness ==
    /\ lexed.done
    /\ Len(lexed.tracking) = 4
    /\ lexed.tracking[1].contents = <<"\n">>
    /\ lexed.tracking[2].token_type = "COMMENT"
    /\ lexed.tracking[2].lineno = 2
    /\ lexed.tracking[3].contents = S_verbatim
    /\ lexed.tracking[4].token_type = "TEXT"
    /\ lexed.tracking[4].contents = <<"{", "{">>
    /\ lexed.fast[4].contents = <<"{", "{">>

-----------------------------------------------------------------------------
(* Claims about the parser *)

\* the first word of the content of a block token is word
FirstWordIs(token, word) ==
    /\ token.token_type = "BLOCK"
    /\ Len(token.contents) >= Len(word)
    /\ SubSeq(token.contents, 1, Len(word)) = word
    /\ Len(token.contents) > Len(word) => isspace(token.contents[Len(word) + 1])

IsStop(token, parse_until) == \E word \in parse_until : FirstWordIs(token, word)

\* p is what parse() makes of the tokens before a terminator: all of them
\* consumed, none left open, no stray terminator among them
Consumed(p) == p.exc = NoExc /\ p.tokens = <<>>

\* r is the return of parse(parse_until) at the terminator tokens[k], p what
\* parse() makes of the tokens before it
ReturnsAt(r, tokens, k, p) ==
    /\ r.exc = NoExc
    /\ r.tokens = SubSeq(tokens, k, Len(tokens))
    /\ Head(r.tokens) = tokens[k]
    /\ r.nodelist = p.nodelist
    /\ r.command_stack = <<>>
    /\ \A n \in 1..Len(r.nodelist.nodes) :
          r.nodelist.nodes[n].token.position.end <= tokens[k].position.start

\* C19: when parse(parse_until) meets a block token whose first word is in
\* parse_until, it returns with that token back at the head of the queue:
\* the tokens left are the terminator and all the tokens after it, and the
\* node list holds exactly the nodes compiled from the tokens before it.  It
\* returns without an exception in no other case.
C19_ParseStopsAtTerminator ==
    parsed.phase = "parsed" =>
        /\ \A k \in 1..Len(parsed.tokens) :
              (/\ IsStop(parsed.tokens[k], parsed.parse_until)
               /\ Consumed(parse(SubSeq(parsed.tokens, 1, k - 1))))
              => ReturnsAt(parsed.result, parsed.tokens, k,
                           parse(SubSeq(parsed.tokens, 1, k - 1)))
        /\ parsed.result.exc = NoExc =>
              /\ parsed.result.tokens # <<>>
              /\ IsStop(Head(parsed.result.tokens), parsed.parse_until)
              /\ Consumed(parse(SubSeq(parsed.tokens, 1,
                                       Len(parsed.tokens) - Len(parsed.result.tokens))))

\* a block with its own terminator, then the terminator parse stops at (a
\* token whose first word is endb), then a variable that is not consumed
C19_Witness ==
    /\ parsed.phase = "parsed"
    /\ Len(parsed.tokens) = 4
    /\ parsed.result.exc = NoExc
    /\ Len(parsed.result.nodelist.nodes) = 1
    /\ parsed.result.nodelist.nodes[1].kind = "BlockNode"
    /\ parsed.result.tokens = <<parsed.tokens[3], parsed.tokens[4]>>
    /\ parsed.tokens[3].contents = S_endb \o <<" ", "a">>
    /\ parsed.tokens[4].token_type = "VAR"

\* the block tokens still open after the tokens from k on, open being those
\* open before; stray when a terminator comes with no block open
RECURSIVE OpenBlocks(_, _, _)
OpenBlocks(tokens, k, open) ==
    IF k > Len(tokens) THEN [open |-> open, stray |-> FALSE]
    ELSE IF FirstWordIs(tokens[k], S_b)
    THEN OpenBlocks(tokens, k + 1, Append(open, tokens[k]))
    ELSE IF FirstWordIs(tokens[k], S_endb)
    THEN IF open = <<>> THEN [open |-> open, stray |-> TRUE]
         ELSE OpenBlocks(tokens, k + 1, SubSeq(open, 1, Len(open) - 1))
    ELSE OpenBlocks(tokens, k + 1, open)

\* exc is the unclosed-tag error for the innermost of the open block tokens
UnclosedInnermost(exc, open, source) ==
    /\ exc.type = "TemplateSyntaxError"
    /\ exc.msg = "Unclosed tag"
    /\ exc.token = open[Len(open)]
    /\ FirstWordIs(exc.token, S_b)
    /\ exc.token.lineno = 1 + NewlinesBefore(source, exc.token.position.start)

Unclosed(exc, o, source) ==
    /\ (~o.stray /\ o.open # <<>>) => UnclosedInnermost(exc, o.open, source)
    /\ exc.msg = "Unclosed tag" => ~o.stray /\ o.open # <<>>

\* C20: when the token queue empties in a parse called by the compile
\* function of a block tag with its terminators, compiling fails with the
\* unclosed-tag TemplateSyntaxError, which carries the token, and with it the
\* command and the line number, of the innermost block tag still open; blocks
\* opened and closed inside it do not count.  The error is raised in no other
\* case.
C20_UnclosedTagNamesInnermostOpen ==
    parsed.phase \in {"compiled", "parsed"} =>
        Unclosed(parsed.result.exc, OpenBlocks(parsed.tokens, 1, <<>>), parsed.source)

\* on line 2 a block is opened, a block inside it is opened and closed, and
\* the source ends: the error carries the outer tag, on line 2
C20_Witness ==
    /\ parsed.phase = "compiled"
    /\ Len(parsed.tokens) = 4
    /\ parsed.tokens[1].contents = <<"\n">>
    /\ parsed.tokens[3].contents = S_b
    /\ parsed.tokens[4].contents = S_endb
    /\ parsed.result.exc.msg = "Unclosed tag"
    /\ parsed.result.exc.token = parsed.tokens[2]
    /\ parsed.result.exc.token.contents = S_b
    /\ parsed.result.exc.token.lineno = 2

-----------------------------------------------------------------------------
(* Claims about the node list, the expressions and the library *)

IsText(node) == node.kind = "TextNode"

HoldsNonText(nodes) == \E i \in 1..Len(nodes) : ~IsText(nodes[i])

\* C21: in a NodeList built with extend_nodelist a must_be_first node comes
\* after text nodes only, and contains_nontext is true exactly when the list
\* holds a node that is not a text node; a must_be_first node appended to a
\* list that holds a non-text node raises TemplateSyntaxError and the list
\* stays as it was, any other append puts the node, with its token, at the
\* end of the list.
C21_MustBeFirstAfterTextOnly ==
    /\ [](built # <<>> =>
            /\ \A i \in 1..Len(built.nodelist.nodes) :
                  built.nodelist.nodes[i].must_be_first =>
                      \A j \in 1..(i - 1) : IsText(built.nodelist.nodes[j])
            /\ built.nodelist.contains_nontext = HoldsNonText(built.nodelist.nodes))
    /\ [][built # <<>> =>
            IF built'.node.must_be_first /\ HoldsNonText(built.nodelist.nodes)
            THEN /\ built'.exc.type = "TemplateSyntaxError"
                 /\ built'.nodelist = built.nodelist
            ELSE /\ built'.exc = NoExc
                 /\ built'.nodelist.nodes =
                        Append(built.nodelist.nodes,
                               [built'.node EXCEPT !.token = NodeToken(built.calls)])]_vars

\* after a leading text the must_be_first node was appended, then a variable;
\* a second must_be_first node was refused
C21_Witness ==
    /\ built # <<>>
    /\ built.calls = 4
    /\ Len(built.nodelist.nodes) = 3
    /\ IsText(built.nodelist.nodes[1])
    /\ built.nodelist.nodes[2].must_be_first
    /\ built.nodelist.nodes[3].kind = "VariableNode"
    /\ built.node = FirstNode
    /\ built.exc.type = "TemplateSyntaxError"

\* k is the index of the first block token whose content is exactly endtag
FirstEndTag(tokens, k, endtag) ==
    /\ tokens[k].token_type = "BLOCK" /\ tokens[k].contents = endtag
    /\ \A m \in 1..(k - 1) : ~(tokens[m].token_type = "BLOCK" /\ tokens[m].contents = endtag)

\* what skip_past removes: the tokens up to and with the first block token
\* whose content is exactly the end tag, all of them if there is none
SkipsToEndTag(tokens, r) ==
    /\ \A k \in 1..Len(tokens) :
          FirstEndTag(tokens, k, S_endb) =>
              r.exc = NoExc /\ r.tokens = SubSeq(tokens, k + 1, Len(tokens))
    /\ (\A k \in 1..Len(tokens) : ~FirstEndTag(tokens, k, S_endb)) => r.tokens = <<>>

\* without such a token the unclosed-tag syntax error is raised
MissingEndTagIsSyntaxError(tokens, r) ==
    (\A k \in 1..Len(tokens) : ~FirstEndTag(tokens, k, S_endb)) =>
        r.exc.type = "TemplateSyntaxError" /\ r.exc.msg = "Unclosed tag"

\* C22: skip_past(endtag) removes the tokens from the head of the queue up
\* to and with the first block token whose content is exactly endtag, and
\* nothing after it; a token of another kind with that content, or a block
\* token that only starts with it, does not stop it; without such a token
\* the queue is emptied and the unclosed-tag syntax error is raised.
C22_SkipPastStopsAtEndTag ==
    [][parsed'.phase = "skipped" =>
          /\ SkipsToEndTag(parsed.tokens, parsed'.result)
          /\ MissingEndTagIsSyntaxError(parsed.tokens, parsed'.result)]_vars

\* a Variable that was constructed without an exception
Constructed == expr.phase = "constructed" /\ expr.variable.exc = "none"

HoldsLiteral(v) == v.literal.kind # "None"
HoldsLookups(v) == v.lookups.set

\* C27: every Variable that is successfully constructed from a string holds
\* exactly one of a literal value and a lookup path; a numeric-looking
\* string with a trailing "." leaves no literal value behind
C27_LiteralXorLookups ==
    Constructed =>
        /\ HoldsLiteral(expr.variable) # HoldsLookups(expr.variable)
        /\ (endswith(expr.var, <<".">>) /\ IsFloat(expr.var) =>
                ~HoldsLiteral(expr.variable))

\* fe.resolve(context, ignore_failures) was called
ResolvedExpression == expr.phase = "resolved" /\ expr.result.by = "FilterExpression"

\* the variable of the expression does not resolve: VariableDoesNotExist
Unresolvable ==
    /\ expr.fe.is_variable
    /\ Variable_resolve(expr.fe.var, expr.dicts, expr.string_if_invalid).exc
          = "VariableDoesNotExist"

\* resolve returns the substitute for the variable without running the chain
ShortCircuits ==
    Unresolvable /\ ~expr.result.ignore_failures /\ expr.string_if_invalid # <<>>

\* what the first filter is to receive: the constant, the resolved variable,
\* or what stands in for a variable that does not resolve
HeadValue ==
    IF ~expr.fe.is_variable THEN expr.fe.var.literal.text
    ELSE IF Unresolvable
    THEN (IF expr.result.ignore_failures THEN <<"None">> ELSE expr.string_if_invalid)
    ELSE text_of(Variable_resolve(expr.fe.var, expr.dicts, expr.string_if_invalid).ret,
                 expr.fe.var, expr.string_if_invalid)

\* the result of invocation i
ResultOf(i) ==
    apply(expr.fe.filters[i].func, expr.result.applied[i].obj,
          expr.result.applied[i].arg_vals, "True")

\* the invocations are those of the first filters of the chain, in the
\* order written, each fed the result of the one before
InOrder ==
    /\ Len(expr.result.applied) <= Len(expr.fe.filters)
    /\ \A i \in 1..Len(expr.result.applied) :
          /\ expr.result.applied[i].func = expr.fe.filters[i].func.name
          /\ expr.result.applied[i].obj = IF i = 1 THEN HeadValue ELSE ResultOf(i - 1)

PathBits == expr.fe.var.lookups.bits

\* the values that are plain data: no callable is met on a path through them
Data == {"5", "dc", "db", "de", "dbe", "ob", "lb"}

DataContext == \A k \in DOMAIN expr.dicts[2] : expr.dicts[2][k] \in Data

\* what a segment finds in a value: the entry of a mapping, else the
\* attribute of an object, else the element of a sequence at that index
Found(current, bit) ==
    CASE current = "CONTEXT" ->
             IF bit \in DOMAIN expr.dicts[2] THEN expr.dicts[2][bit] ELSE "MISSING"
      [] current = "MISSING" -> "MISSING"
      [] World[current].kind \in {"dict", "object"} ->
             IF bit \in DOMAIN World[current].content THEN World[current].content[bit]
             ELSE "MISSING"
      [] World[current].kind = "list" ->
             IF bit = "0" /\ Len(World[current].content) > 0 THEN World[current].content[1]
             ELSE "MISSING"
      [] OTHER -> "MISSING"

\* the segments walked from the left, starting at the context
RECURSIVE Walk(_, _)
Walk(bits, current) ==
    IF bits = <<>> THEN current ELSE Walk(Rest(bits), Found(current, bits[1][1]))

PathIs(path, value) ==
    /\ expr.fe.var.var = path
    /\ expr.dicts[2] = Dict1("a", value)

ABC == <<"a", ".", "b", ".", "c">>

\* the placeholder as resolve returns it: string_if_invalid, the name of the
\* variable put in the place of %s
Placeholder ==
    IF find(expr.string_if_invalid, <<"%", "s">>) > -1
    THEN percent(expr.string_if_invalid, expr.fe.var.var)
    ELSE [ret |-> expr.string_if_invalid, exc |-> "none"]

DefaultMode ==
    expr.phase = "resolved" /\ expr.result.by = "FilterExpression"
        /\ ~expr.result.ignore_failures

StrictMode == expr.phase = "resolved" /\ expr.result.by = "Variable"

SoftFailure == ResolvedExpression /\ Unresolvable /\ ~expr.result.ignore_failures

HasPercentS == find(expr.string_if_invalid, <<"%", "s">>) > -1

\* C25 as claimed: whenever the variable of a FilterExpression cannot be
\* resolved and the caller did not ask for hard failure, for every
\* string_if_invalid and every chain the result is string_if_invalid itself
\* and nothing is raised
C25_ShortCircuitsToInvalidString ==
    SoftFailure =>
        /\ expr.result.exc = "none"
        /\ expr.result.ret = expr.string_if_invalid

\* C25 amended: with a string_if_invalid that is not empty and holds no %s
\* the result is string_if_invalid itself for every chain, no filter runs and
\* nothing is raised; one that holds %s is returned formatted with the name
\* of the variable, no filter run; with the empty one the chain runs on the
\* empty string
C25_ShortCircuitsUnlessEmptyOrFormat ==
    SoftFailure =>
        /\ expr.string_if_invalid # <<>> /\ ~HasPercentS =>
              /\ expr.result.exc = "none"
              /\ expr.result.ret = expr.string_if_invalid
              /\ expr.result.applied = <<>>
        /\ HasPercentS =>
              /\ expr.result.exc = percent(expr.string_if_invalid, expr.fe.var.var).exc
              /\ expr.result.ret = percent(expr.string_if_invalid, expr.fe.var.var).ret
              /\ expr.result.applied = <<>>
        /\ expr.string_if_invalid = <<>> =>
              /\ InOrder
              /\ HeadValue = <<>>
              /\ expr.result.exc = "none" =>
                    /\ Len(expr.result.applied) = Len(expr.fe.filters)
                    /\ expr.result.ret =
                          IF expr.fe.filters = <<>> THEN <<>>
                          ELSE ResultOf(Len(expr.fe.filters))

\* {{ a|p|q }} without a in the context, string_if_invalid = 'N'
C25_Witness ==
    /\ SoftFailure
    /\ Len(expr.fe.filters) = 2
    /\ expr.string_if_invalid = <<"N">>
    /\ expr.result.ret = <<"N">>
    /\ expr.result.applied = <<>>

\* the argument of filter i is a variable that does not resolve
MissingArg(i) ==
    /\ expr.fe.filters[i].args # <<>>
    /\ expr.fe.filters[i].args[1].lookup
    /\ Variable_resolve(expr.fe.filters[i].args[1].arg, expr.dicts, expr.string_if_invalid).exc
          = "VariableDoesNotExist"

\* C26: by default a missing variable does not abort the resolve, whether it
\* is the main variable of the expression or the argument of a filter: no
\* VariableDoesNotExist is raised and the filter gets string_if_invalid for
\* a missing argument
C26_MissingVariableDoesNotAbort ==
    ResolvedExpression /\ ~expr.result.ignore_failures =>
        /\ expr.result.exc # "VariableDoesNotExist"
        /\ \A i \in 1..Len(expr.result.applied) :
              MissingArg(i) => expr.result.applied[i].arg_vals = <<expr.string_if_invalid>>

\* Variable.resolve was called on the path of one segment, a, and the
\* context holds value under a
OneBitOn(value) ==
    /\ StrictMode
    /\ expr.fe.var.var = <<"a">>
    /\ expr.dicts[2] = Dict1("a", value)

Flagged(f) == World[f].call.do_not_call_in_templates \/ World[f].call.alters_data

\* the callables the segments find that are to be called, in the order they
\* are found: a flagged one is not, and nothing is found behind a callable
\* that is kept, replaced or raises
RECURSIVE ToCall(_, _)
ToCall(bits, current) ==
    IF bits = <<>> THEN <<>>
    ELSE LET v == Found(current, bits[1][1])
         IN  IF v = "MISSING" THEN <<>>
             ELSE IF World[v].kind # "function" THEN ToCall(Rest(bits), v)
             ELSE IF Flagged(v) THEN <<>>
             ELSE <<v>> \o (IF World[v].call.raises # "none" THEN <<>>
                            ELSE ToCall(Rest(bits), World[v].call.returns))

\* C28: resolving a lookup path never calls a callable flagged
\* do_not_call_in_templates or alters_data: the first is kept as the value,
\* the second replaced by string_if_invalid; every other callable a segment
\* finds is called exactly once, without arguments, and replaced by what it
\* returns
C28_FlaggedCallablesNeverInvoked ==
    expr.phase = "resolved" /\ expr.fe.is_variable /\ expr.fe.var.lookups.set
        /\ expr.fe.filters = <<>> =>
        /\ \A i \in 1..Len(expr.result.calls) : ~Flagged(expr.result.calls[i])
        /\ expr.result.calls = ToCall(PathBits, "CONTEXT")
        /\ OneBitOn("f_dnc") => expr.result.exc = "none" /\ expr.result.ret = <<"f_dnc">>
        /\ OneBitOn("f_alt") =>
              expr.result.exc = "none" /\ expr.result.ret = expr.string_if_invalid
        /\ OneBitOn("f") =>
              expr.result.exc = "none" /\ expr.result.ret = <<"dc">>
                  /\ expr.result.calls = <<"f">>
        /\ StrictMode /\ PathIs(<<"a", ".", "b", ".", "c">>, "of") =>
              expr.result.ret = <<"5">> /\ expr.result.calls = <<"f">>

\* {{ a }} with a an alters_data callable, string_if_invalid = 'N'
C28_Witness ==
    /\ OneBitOn("f_alt")
    /\ expr.string_if_invalid = <<"N">>
    /\ expr.result.ret = <<"N">>
    /\ expr.result.calls = <<>>

-----------------------------------------------------------------------------
(* Claims about the Library *)

\* the name a callback is registered under when none is given: its own, a
\* wrapper's that of the function it decorates
OwnName(f) ==
    IF Functions[f].decorated # "none" THEN Functions[Functions[f].decorated].name
    ELSE Functions[f].name

\* the step is a call that registers: it returns a function
Registers == library'.calls = library.calls + 1 /\ library'.ret.kind = "function"

\* the callback of the registering step: the function among its arguments
Callback ==
    IF Len(library'.args) = 2 /\ library'.args[2].kind = "function" THEN library'.args[2].v
    ELSE library'.args[1].v

\* the name of the registering step: the explicit one of tag(m, f) and
\* tag(m)(f), the callback's own for tag(f) and tag()(f); the same for filter
EntryName ==
    CASE library'.call \in {"tag", "filter"} /\ library'.args[2].kind = "function" ->
             dict_key(library'.args[1])
      [] library'.call \in {"tag", "filter"} /\ library'.args[2].kind # "function" ->
             OwnName(library'.args[1].v)
      [] library'.call \in {"tag_function", "filter_function.dec"} ->
             OwnName(library'.args[1].v)
      [] library'.call \in {"tag.dec", "filter.dec"} -> library.ret.name.v

OnTags == library'.call \in {"tag", "tag_function", "tag.dec"}

\* the attributes of the functions after filter(k, f, **flags)
FlagsSet(funcs, f, flags, k) ==
    [g \in DOMAIN funcs |->
        [name |-> funcs[g].name, decorated |-> funcs[g].decorated,
         flags |-> [a \in FlagNames |->
                       IF g \in {f, funcs[f].decorated} /\ flags[a] # "unset" THEN flags[a]
                       ELSE funcs[g].flags[a]],
         filter_name |-> IF g = f THEN k ELSE funcs[g].filter_name]]

\* the one entry k -> f is written into dict d
OnlyEntry(d, e, k, f) ==
    /\ DOMAIN e = DOMAIN d \cup {k}
    /\ e[k] = f
    /\ \A j \in DOMAIN d \ {k} : e[j] = d[j]

\* C29: whatever the shape of the call, a registration of the callback f
\* under the name k (given, or f's own) writes the one entry tags[k] = f
\* (filters[k] = f, with the flags set on f, for filter) and returns f; no
\* other entry is added, changed or removed, and a call that only returns
\* a decorator changes nothing
C29_RegistrationShapesConverge ==
    [][/\ Registers /\ OnTags =>
              /\ library'.ret.func = Callback
              /\ OnlyEntry(library.lib.tags, library'.lib.tags, EntryName, Callback)
              /\ library'.lib.filters = library.lib.filters
              /\ library'.lib.funcs = library.lib.funcs
       /\ Registers /\ ~OnTags =>
              /\ library'.ret.func = Callback
              /\ OnlyEntry(library.lib.filters, library'.lib.filters, EntryName, Callback)
              /\ library'.lib.tags = library.lib.tags
              /\ library'.lib.funcs =
                    FlagsSet(library.lib.funcs, Callback, library'.flags, EntryName)
       /\ ~Registers => library'.lib = library.lib]_vars

\* f registered by @register.filter('m', is_safe=True) after a tag of the
\* same name was registered
C29_Witness ==
    /\ library.call = "filter.dec"
    /\ library.ret.func = "f"
    /\ "m" \in DOMAIN library.lib.filters /\ library.lib.filters["m"] = "f"
    /\ library.lib.funcs["f"].flags.is_safe = "True"
    /\ library.lib.funcs["f"].filter_name = "m"
    /\ "m" \in DOMAIN library.lib.tags

\* the parameters of the wrapped function the tag passes values to
TagParams ==
    IF library.spec.takes_context THEN Rest(library.spec.params) ELSE library.spec.params

\* the number of positional bits
RECURSIVE PositionalBits(_)
PositionalBits(bits) ==
    IF bits = <<>> THEN 0
    ELSE (IF bits[1].kw THEN 0 ELSE 1) + PositionalBits(Rest(bits))

\* the declared parameter p gets a value from the bits
Supplied(p) ==
    \/ \E i \in 1..Len(library.bits) : library.bits[i].kw /\ library.bits[i].param = p
    \/ \E j \in 1..Len(TagParams) : TagParams[j] = p /\ j <= PositionalBits(library.bits)

\* a declared parameter that has no default gets no value
MissingRequired ==
    \/ \E j \in 1..(Len(TagParams) - library.spec.defaults) : ~Supplied(TagParams[j])
    \/ \E j \in 1..Len(library.spec.kwonly) :
          library.spec.kwonly[j] \notin library.spec.kwonly_defaults
              /\ ~Supplied(library.spec.kwonly[j])

\* the signature and takes_context agree: the first parameter is context
WellDeclared ==
    library.spec.takes_context => library.spec.params # <<>> /\ library.spec.params[1] = "context"

\* C30: compiling a use of the tag fails with a syntax error whenever a
\* declared parameter without a default gets no value, and the error is the
\* missing-argument one unless the bits are refused for another reason first
C30_MissingArgumentIsSyntaxError ==
    library.phase = "parsed" /\ WellDeclared /\ MissingRequired =>
        /\ library.result.exc = "TemplateSyntaxError"
        /\ library.result.msg \in
              {"did not receive value(s)", "unexpected keyword argument", "multiple values",
               "positional after keyword", "too many positional arguments"}

TagUseParsed == library.phase = "parsed" /\ WellDeclared

\* the names the wrapped function declares
Declared ==
    {TagParams[j] : j \in 1..Len(TagParams)}
        \cup {library.spec.kwonly[j] : j \in 1..Len(library.spec.kwonly)}

\* a positional bit beyond the declared positional parameters, without *args
ExtraPositional ==
    PositionalBits(library.bits) > Len(TagParams) /\ ~library.spec.varargs

\* a keyword bit that names no declared parameter, without **kwargs
UnknownKeyword ==
    /\ ~library.spec.varkw
    /\ \E i \in 1..Len(library.bits) :
          library.bits[i].kw /\ library.bits[i].param \notin Declared

\* a positional bit after a keyword bit
PositionalAfterKeyword ==
    \E i, j \in 1..Len(library.bits) : i < j /\ library.bits[i].kw /\ ~library.bits[j].kw

\* C31: a use of the tag with a positional argument beyond the declared
\* positional parameters (no *args), with a keyword argument that names no
\* declared parameter (no **kwargs), or with a positional argument after a
\* keyword argument is refused with a syntax error
C31_UnmatchedArgumentIsSyntaxError ==
    TagUseParsed /\ (ExtraPositional \/ UnknownKeyword \/ PositionalAfterKeyword) =>
        /\ library.result.exc = "TemplateSyntaxError"
        /\ library.result.msg \in
              {"unexpected keyword argument", "multiple values", "positional after keyword",
               "too many positional arguments"}

\* {% f a=1 2 %} for def f(a, b=1): refused for the order of its arguments
C31_Witness ==
    /\ TagUseParsed
    /\ library.spec.params = <<"a", "b">> /\ library.spec.kwonly = <<>>
    /\ library.bits = <<Keyword("a"), Positional>>
    /\ library.result.exc = "TemplateSyntaxError"
    /\ library.result.msg = "positional after keyword"

\* the number of keyword bits that name p
RECURSIVE KeywordBits(_, _)
KeywordBits(bits, p) ==
    IF bits = <<>> THEN 0
    ELSE (IF bits[1].kw /\ bits[1].param = p THEN 1 ELSE 0) + KeywordBits(Rest(bits), p)

\* the number of values the declared parameter p gets from the bits
ValuesFor(p) ==
    KeywordBits(library.bits, p)
        + (IF \E j \in 1..Len(TagParams) : TagParams[j] = p /\ j <= PositionalBits(library.bits)
           THEN 1 ELSE 0)

\* C32: when the use of the tag compiles, no declared parameter of the
\* wrapped function gets two values: the same keyword twice, or a keyword
\* for a parameter a positional argument fills, is refused
C32_NoParameterGetsTwoValues ==
    TagUseParsed /\ library.result.exc = "none" =>
        \A p \in Declared : ValuesFor(p) <= 1

\* the frames the render contexts of c and c2 both hold
SharedRenderFrames ==
    Ids(ctxs.c.render_context.dicts) \cap Ids(ctxs.c2.render_context.dicts)

\* a key was written into the render context of one of the two Contexts,
\* c2 made and nothing pushed on the render context written to
RenderWrite ==
    /\ ctxs.c2.made
    /\ hlast'.part = "render" /\ hlast'.op = "set"
    /\ Len(ctxs[hlast'.on].render_context.dicts) = 1

\* C36: the render context of c2 = c.new(...) shares no frame with the render
\* context of c: a key written into the render context of one of them
\* (before any push on it) leaves the frames of the render context of the
\* other unchanged.
C36_NewRenderContextSharesNoFrame ==
    /\ [](ctxs.c2.made => SharedRenderFrames = {})
    /\ [][RenderWrite =>
            frames_of(heap', ctxs[Other(hlast'.on)].render_context.dicts)
              = frames_of(heap, ctxs[Other(hlast'.on)].render_context.dicts)]_vars

\* the innermost open scope
Innermost == pstate.open[Len(pstate.open)]

\* the body runs in an isolated scope
InIsolated == pstate.open # <<>> /\ Innermost.isolated

\* the frame the scope b pushed is still where it was pushed, on the stack ids
Undisturbed(b, ids) ==
    /\ Len(ids) > Len(b.ids)
    /\ SubSeq(ids, 1, Len(b.ids) + 1) = Append(b.ids, b.frame)

\* the four lookups find key
Finds(key) ==
    \/ RenderContext_get(RenderFrames, key, "null") # "null"
    \/ RenderContext_getitem(RenderFrames, key).exc = "none"
    \/ RenderContext_contains(RenderFrames, key)
    \/ key \in RenderContext_iter(RenderFrames)

\* key is held by a frame made inside the innermost scope, whatever the
\* frames the scope found hold
StoredInside(key) ==
    /\ RC.dicts[Len(RC.dicts)] \notin Ids(Innermost.ids)
    /\ key \in DOMAIN heap[RC.dicts[Len(RC.dicts)]]

\* an isolated scope is left
LeavesIsolated ==
    /\ hlast'.op = "state_exit"
    /\ pstate.open # <<>> /\ Innermost.isolated

\* the render context is as the scope found it: its frames and what they hold
AsFound(b) ==
    /\ RC'.dicts = b.ids
    /\ frames_of(heap', RC'.dicts) = b.seen

\* C37 as stated: in an isolated push_state scope a lookup on the render
\* context (get, indexing, containment, iteration) finds only keys stored
\* inside the scope, and when the scope is left the render context is as it
\* was on entry: the keys stored inside are gone, the keys of the enclosing
\* render are back unchanged.
C37_ScopeIsLocal ==
    /\ [](InIsolated => \A key \in RenderKeys : Finds(key) => StoredInside(key))
    /\ [][LeavesIsolated => AsFound(Innermost)]_vars

\* C37 amended: the same as long as the frame the scope pushed is still on
\* the stack where it was pushed, and for the exit when it is the top frame
\* then.
C37_ScopeIsLocalWhileItsFrameStays ==
    /\ [](InIsolated /\ Undisturbed(Innermost, RC.dicts) =>
             \A key \in RenderKeys : Finds(key) => StoredInside(key))
    /\ [][LeavesIsolated /\ RC.dicts = Append(Innermost.ids, Innermost.frame) =>
             AsFound(Innermost)]_vars

\* the enclosing render stored x, the body of an isolated scope stored y: in
\* the body y is found and x is not
C37_Witness ==
    /\ InIsolated /\ Undisturbed(Innermost, RC.dicts)
    /\ Len(Innermost.ids) = 2
    /\ DOMAIN Innermost.seen[2] = {"x"}
    /\ DOMAIN heap[Innermost.ids[2]] = {"x"}
    /\ RC.dicts = Append(Innermost.ids, Innermost.frame)
    /\ Finds("y") /\ ~Finds("x")

-----------------------------------------------------------------------------
(* Claims about the InclusionNode *)

\* the step is a render of the InclusionNode
Includes == hlast'.op = "include"

\* the Context the node was rendered on, before the step
Parent == ctxs[hlast'.on]

\* the csrf_token the parent holds, "null" for none
ParentToken == get(frames_of(heap, Parent.dicts), "csrf_token", "null")

\* the child context is [builtins, the mapping returned], with the
\* csrf_token of the parent written into the mapping exactly when the parent
\* holds one that is not None
ChildOfNew ==
    /\ Len(hlast'.new_context) = 2
    /\ hlast'.new_context[1] = builtins
    /\ hlast'.new_context[2] =
           IF ParentToken # "null"
           THEN DictSet(IF hlast'._dict = CallerDict THEN heap[CallerDict] ELSE Dict1("y", "1"),
                        "csrf_token", ParentToken)
           ELSE IF hlast'._dict = CallerDict THEN heap[CallerDict] ELSE Dict1("y", "1")

\* C33 as stated: a render of the InclusionNode leaves the user variables of
\* the Context it is rendered on as they were, the frames, what they hold
\* and their number, whatever the sub-template sets, pushes and pops; the
\* child context is made by new() from the mapping the function returned,
\* and holds the csrf_token of the parent exactly when the parent has one
\* that is not None.
C33_InclusionLeavesParentUnchanged ==
    [][Includes =>
          /\ ctxs'[hlast'.on].dicts = Parent.dicts
          /\ frames_of(heap', Parent.dicts) = frames_of(heap, Parent.dicts)
          /\ ChildOfNew]_vars

\* C33 amended: the same for every frame of the parent but the mapping the
\* function returned, when that mapping is itself a frame of the parent.
C33_InclusionLeavesOtherFramesUnchanged ==
    [][Includes =>
          /\ ctxs'[hlast'.on].dicts = Parent.dicts
          /\ \A id \in Ids(Parent.dicts) \ {hlast'._dict} : heap'[id] = heap[id]
          /\ ChildOfNew]_vars

\* the node was rendered on c, which holds a csrf_token; the function
\* returned a new dict, the sub-template popped it and wrote x into the
\* frame below
C33_Witness ==
    /\ hlast.op = "include" /\ hlast.on = "c" /\ hlast.exc = "none"
    /\ hlast._dict # CallerDict
    /\ hlast.ops = <<"pop", "set">>
    /\ hlast.new_context[2] = DictSet(Dict1("y", "1"), "csrf_token", "tok")
    /\ Len(hlast.rendered) = 1 /\ hlast.rendered[1]["x"] = "2"
    /\ heap[CallerDict] = DictSet(Dict1("x", "1"), "csrf_token", "tok")
    /\ Len(ctxs.c.dicts) = 2

\* what a lookup of the node finds in the render context of Context k
CacheOf(k) == RenderContext_get(frames_of(heap, ctxs[k].render_context.dicts), IncNode, "null")

\* C34: in one render of the template on a Context the sub-template of the
\* InclusionNode is resolved by the engine at most once, and every later
\* render of the node in it takes the handle from the render context; the
\* handle is found through the render context of a Context only while a
\* render on that Context has stored it: not by a render on another Context,
\* and not once the render that stored it has ended.
C34_HandleCachedPerRender ==
    \A k \in Renderers :
        /\ pstate[k].loads <= 1
        /\ pstate[k].pc = "open" =>
              /\ pstate[k].renders > 0 => pstate[k].loads = 1 /\ CacheOf(k) = Handle
              /\ pstate[k].renders = 0 => CacheOf(k) = "null"
        /\ hlast.op = "include" /\ hlast.on = k =>
              /\ hlast.t = Handle
              /\ hlast.loaded <=> pstate[k].renders = 1
        /\ pstate[k].pc = "idle" =>
              \A id \in Ids(ctxs[k].render_context.dicts) : IncNode \notin DOMAIN heap[id]

\* c renders the node for the second time, with the handle the first render
\* stored; the render on o that goes on has not rendered the node and finds
\* no handle
C34_Witness ==
    /\ pstate.c.pc = "open" /\ pstate.c.renders = 2 /\ pstate.c.loads = 1
    /\ hlast.op = "include" /\ hlast.on = "c" /\ ~hlast.loaded /\ hlast.t = Handle
    /\ pstate.o.pc = "open" /\ pstate.o.renders = 0 /\ CacheOf("o") = "null"

-----------------------------------------------------------------------------
(* Claims about compile errors *)

\* the exception the construct at tokens[i] raises when it is compiled on
\* its own, NoExc when it raises none
Raises(token) ==
    IF token.token_type = "VAR"
    THEN IF token.contents = <<>>
         THEN error(token, "TemplateSyntaxError", "Empty variable tag")
         ELSE IF compile_filter(token.contents).exc # "none"
         THEN error(token, compile_filter(token.contents).exc, "Could not parse")
         ELSE NoExc
    ELSE IF token.token_type = "BLOCK"
    THEN IF split(token.contents) = <<>>
         THEN error(token, "TemplateSyntaxError", "Empty block tag")
         ELSE IF split(token.contents)[1] \notin tags \cup {S_endb}
         THEN error(token, "TemplateSyntaxError", "Invalid block tag")
         ELSE IF split(token.contents)[1] = S_t /\ compile_func(token).exc # "none"
         THEN error(token, compile_func(token).exc, "received too many positional arguments")
         ELSE NoExc
    ELSE NoExc

\* the first exception raised when the tokens from i on are compiled in
\* order, open being the tokens of the block tags that are open
RECURSIVE FirstRaised(_, _, _)
FirstRaised(tokens, i, open) ==
    IF i > Len(tokens)
    THEN IF open = <<>> THEN NoExc
         ELSE error(open[Len(open)], "TemplateSyntaxError", "Unclosed tag")
    ELSE IF Raises(tokens[i]) # NoExc THEN Raises(tokens[i])
    ELSE IF tokens[i].token_type # "BLOCK" THEN FirstRaised(tokens, i + 1, open)
    ELSE IF split(tokens[i].contents)[1] = S_b
    THEN FirstRaised(tokens, i + 1, Append(open, tokens[i]))
    ELSE IF split(tokens[i].contents)[1] = S_endb
    THEN IF open = <<>> THEN error(tokens[i], "TemplateSyntaxError", "Invalid block tag")
         ELSE FirstRaised(tokens, i + 1, ButLast(open))
    ELSE FirstRaised(tokens, i + 1, open)

Compiled == parsed.phase = "compiled"

\* C35: the exception compile_nodelist raises is the first one raised while
\* the tokens were compiled, with its type and message and the token of the
\* construct that raised it, the innermost one when block tags are nested,
\* whether debug is on or off; debug adds the position of that token and
\* nothing else, and a compile without fault raises nothing.
C35_FirstErrorReachesCaller ==
    Compiled =>
        /\ parsed.result.exc = FirstRaised(parsed.result.tokens, 1, <<>>)
        /\ parsed.result.template_debug =
               IF parsed.debug /\ parsed.result.exc # NoExc
               THEN parsed.result.exc.token.position ELSE NoPosition

\* {% b %}{% b %}{% t a %}: the exception of the tag t, inside two blocks,
\* reaches the caller with the token of t
C35_Witness ==
    /\ Compiled /\ parsed.debug
    /\ Len(parsed.result.tokens) = 3
    /\ split(parsed.result.tokens[1].contents) = <<S_b>>
    /\ split(parsed.result.tokens[2].contents) = <<S_b>>
    /\ parsed.result.exc.token = parsed.result.tokens[3]
    /\ parsed.result.exc.msg = "received too many positional arguments"
    /\ parsed.result.template_debug = parsed.result.tokens[3].position

-----------------------------------------------------------------------------
(* Claims about comments *)

\* the source text of the token, for the tokens of a DebugLexer
TokenString(t) == SubSeq(template.source, t.position.start + 1, t.position.end)

\* the number of tokens that are not comments
RECURSIVE NotComments(_)
NotComments(tokens) ==
    IF tokens = <<>> THEN 0
    ELSE (IF tokens[1].token_type = "COMMENT" THEN 0 ELSE 1) + NotComments(Rest(tokens))

\* C38: a Comment token holds the content of its comment tag only when the
\* comment contains the Translators mark, and empty content otherwise; the
\* parser appends no node for a Comment token.
C38_CommentContentOnlyForTranslators ==
    /\ template.phase \in {"compiled", "failed"} =>
          \A i \in 1..Len(template.tokens) :
              template.tokens[i].token_type = "COMMENT" =>
                  template.tokens[i].contents =
                      IF template.engine.debug
                         /\ find(TokenString(template.tokens[i]), TRANSLATOR_COMMENT_MARK) = -1
                      THEN <<>>
                      ELSE template.tokens[i].contents
    /\ template.phase = "compiled" =>
          Len(template.nodelist.nodes) = NotComments(template.tokens)

\* no token opens, closes or stops a block, and none fails to compile: text,
\* comments, variables and the simple tag t without arguments
Plain(tokens) ==
    \A i \in 1..Len(tokens) :
        \/ tokens[i].token_type \in {"TEXT", "COMMENT"}
        \/ tokens[i].token_type = "VAR" /\ compile_filter(tokens[i].contents).exc = "none"
        \/ tokens[i].token_type = "BLOCK" /\ split(tokens[i].contents) = <<S_t>>

\* C40: parse(parse_until) called while no block tag is being compiled (the
\* command stack is empty) on tokens without a terminator runs out of tokens
\* and raises the unclosed-tag TemplateSyntaxError, not an exception of
\* another kind.
C40_MissingTerminatorIsSyntaxError ==
    parsed.phase = "parsed" /\ Plain(parsed.tokens) =>
        /\ parsed.result.tokens = <<>>
        /\ parsed.result.exc.type = "TemplateSyntaxError"
        /\ parsed.result.exc.msg = "Unclosed tag"

-----------------------------------------------------------------------------
(* Claims about the termination of the parser *)

\* the top-level parse() has returned or raised
Done == parsed.pc = "done"

\* a step takes one token off the queue
TakesToken == Len(parsed'.tokens) = Len(parsed.tokens) - 1

\* the step put the terminator back and parse returned with it
PushesBackAndReturns ==
    /\ parsed'.tokens = parsed.tokens
    /\ parsed'.pushed = parsed.pushed + 1
    /\ parsed'.pc = "returned"
    /\ parsed'.calls = ButLast(parsed.calls)

\* the step ends a call on the empty queue
EndsOnEmptyQueue ==
    /\ parsed.tokens = <<>> /\ parsed'.tokens = <<>>
    /\ parsed'.pc = "done"

\* C39: parse() on a finite token queue ends: every step takes a token off
\* the queue, but the step that puts the terminator back, which makes parse
\* return at once, and the step that finds the queue empty; the top-level
\* parse() raises, or returns with the queue empty.
C39_ParseTerminates ==
    /\ <>Done
    /\ [](Done /\ parsed.exc = "none" => parsed.tokens = <<>> /\ parsed.calls = <<>>)
    /\ [][TakesToken \/ PushesBackAndReturns \/ EndsOnEmptyQueue]_vars

\* a block with its terminator was compiled: the terminator was put back
\* once, and parse() returned with the queue empty
C39_Witness ==
    /\ Done /\ parsed.exc = "none"
    /\ parsed.tokens = <<>>
    /\ parsed.pushed = 1
====
